---- MODULE Spec2Model ----
(***************************************************************************)
(* A model of the MCQUESTS daily quest generators.                         *)
(*                                                                         *)
(* Texts are TLA+ strings.  The source's non-ASCII characters (em dash,    *)
(* en dash, multiplication sign, typographic apostrophe) are written "@":  *)
(* each is one UTF-16 code unit, none occurs in a BANNED term, so lengths, *)
(* equality of texts and every substring test are preserved.               *)
(*                                                                         *)
(* JavaScript's 32-bit integer operations (>>>, ^, |, Math.imul, ToInt32)  *)
(* act on bit patterns; a 32-bit pattern is modelled as <<hi, lo>>, two    *)
(* 16-bit halves, because the pattern itself exceeds the integer range of  *)
(* TLC.                                                                    *)
(***************************************************************************)
EXTENDS Integers, Sequences, FiniteSets, TLC

(* ------------------------- 32-bit bit patterns ------------------------- *)
RECURSIVE Pow2(_)
Pow2(k) == IF k = 0 THEN 1 ELSE 2 * Pow2(k - 1)

B16 == Pow2(16)

Hi(w) == w[1]
Lo(w) == w[2]

IsWord32(w) == Hi(w) \in 0..(B16 - 1) /\ Lo(w) \in 0..(B16 - 1)

RECURSIVE Xor16(_, _)
Xor16(a, b) ==
  IF a = 0 THEN b
  ELSE IF b = 0 THEN a
  ELSE ((a + b) % 2) + 2 * Xor16(a \div 2, b \div 2)

RECURSIVE Or16(_, _)
Or16(a, b) ==
  IF a = 0 THEN b
  ELSE IF b = 0 THEN a
  ELSE (IF a % 2 = 1 \/ b % 2 = 1 THEN 1 ELSE 0) + 2 * Or16(a \div 2, b \div 2)

\* a ^ b
Xor32(a, b) == <<Xor16(Hi(a), Hi(b)), Xor16(Lo(a), Lo(b))>>

\* a | b
Or32(a, b) == <<Or16(Hi(a), Hi(b)), Or16(Lo(a), Lo(b))>>

\* a >>> k, for 0 < k < 16
Shr32(a, k) ==
  <<Hi(a) \div Pow2(k),
    (Lo(a) \div Pow2(k)) + (Hi(a) % Pow2(k)) * Pow2(16 - k)>>

\* (a + b) wrapped to 32 bits, as ToInt32 of the exact sum
Add32(a, b) ==
  LET lo == Lo(a) + Lo(b)
  IN  <<(Hi(a) + Hi(b) + lo \div B16) % B16, lo % B16>>

\* Math.imul(a, b): the low 32 bits of the product, by 8-bit limbs
Imul(a, b) ==
  LET a0 == Lo(a) % 256   a1 == Lo(a) \div 256
      a2 == Hi(a) % 256   a3 == Hi(a) \div 256
      b0 == Lo(b) % 256   b1 == Lo(b) \div 256
      b2 == Hi(b) % 256   b3 == Hi(b) \div 256
      c0 == a0 * b0
      c1 == a0 * b1 + a1 * b0 + c0 \div 256
      c2 == a0 * b2 + a1 * b1 + a2 * b0 + c1 \div 256
      c3 == a0 * b3 + a1 * b2 + a2 * b1 + a3 * b0 + c2 \div 256
  IN  <<(c2 % 256) + 256 * (c3 % 256), (c0 % 256) + 256 * (c1 % 256)>>

\* Math.floor((u / 4294967296) * n) for a uint32 pattern u and a small
\* length n: both the quotient and the product are exact in a double.
FloorScale(u, n) == (Hi(u) * n + (Lo(u) * n) \div B16) \div B16

(* --------------------------------- RNG --------------------------------- *)
\* mulberry32's closure variable `seed` after one more call.  The source
\* lets the double grow by 0x6d2b79f5 per call; every later use applies
\* ToInt32, so only the value modulo 2^32 matters while the double is exact.
SeedStep(seed) == Add32(seed, <<27947, 31221>>)

\* t = Math.imul(t ^ (t >>> 15), t | 1)  for t = (seed += 0x6d2b79f5)
MixFirst(t) == Imul(Xor32(t, Shr32(t, 15)), Or32(t, <<0, 1>>))

\* t ^= t + Math.imul(t ^ (t >>> 7), t | 61)
MixSecond(t) == Xor32(t, Add32(t, Imul(Xor32(t, Shr32(t, 7)), Or32(t, <<0, 61>>))))

\* (t ^ (t >>> 14)) >>> 0
MixLast(t) == Xor32(t, Shr32(t, 14))

\* The uint32 numerator of the value returned by the call that left the
\* closure variable at `seed`; the returned float is Mulberry32Out / 2^32.
Mulberry32Out(seed) == MixLast(MixSecond(MixFirst(seed)))

\* Printable ASCII: codes 32..95, and codes 97..126 (code 96 is not used).
AsciiLow ==
  " !\"#$%&'()*+,-./0123456789:;<=>?@ABCDEFGHIJKLMNOPQRSTUVWXYZ[\\]^_"
AsciiHigh == "abcdefghijklmnopqrstuvwxyz{|}~"

\* The UTF-16 code unit of each one-character string
CodeOf ==
  [c \in {SubSeq(AsciiLow, k, k) : k \in 1..Len(AsciiLow)}
          \cup {SubSeq(AsciiHigh, k, k) : k \in 1..Len(AsciiHigh)} |->
     IF \E k \in 1..Len(AsciiLow) : SubSeq(AsciiLow, k, k) = c
     THEN 31 + (CHOOSE k \in 1..Len(AsciiLow) : SubSeq(AsciiLow, k, k) = c)
     ELSE 96 + (CHOOSE k \in 1..Len(AsciiHigh) : SubSeq(AsciiHigh, k, k) = c)]

CharCode(c) == CodeOf[c]

\* s.charCodeAt(i - 1)
CharCodeAt(s, i) == CharCode(SubSeq(s, i, i))

\* strHash adding the character codes up instead of mixing them in
RECURSIVE StrSumFrom(_, _, _)
StrSumFrom(s, i, h) ==
  IF i > Len(s) THEN h
  ELSE StrSumFrom(s, i + 1, Add32(h, <<0, CharCodeAt(s, i)>>))

strHash_sum(s) == StrSumFrom(s, 1, <<33052, 40389>>)

RECURSIVE StrHashFrom(_, _, _)

\* The rest of the loop once the character at i has been folded into h
StrHashNext(s, i, h) == CASE IsWord32(h) -> StrHashFrom(s, i + 1, h)

StrHashFrom(s, i, h) ==
  IF i > Len(s) THEN h
  ELSE StrHashNext(s, i, Imul(Xor32(h, <<0, CharCodeAt(s, i)>>), <<256, 403>>))

\* strHash: h = 2166136261; for each char: h ^= code; h = imul(h, 16777619)
strHash(s) == StrHashFrom(s, 1, <<33052, 40389>>)

\* rngForWeek: the initial closure state of mulberry32(strHash(...))
rngForWeek(isoYear, week) ==
  strHash(ToString(isoYear) \o "-" \o ToString(week) \o "-MCQUESTS")

(* ---------------------------- Date helpers ----------------------------- *)
\* The value of a run of decimal digits
RECURSIVE ParseDigits(_, _, _)
ParseDigits(s, i, acc) ==
  IF i > Len(s) THEN acc
  ELSE ParseDigits(s, i + 1, 10 * acc + (CharCodeAt(s, i) - 48))

\* Date.UTC(y, m - 1, d) in whole days since 1970-01-01 (proleptic
\* Gregorian calendar; a day number outside the month rolls over, as in JS)
DaysFromCivil(y, m, d) ==
  LET yy  == IF m <= 2 THEN y - 1 ELSE y
      era == yy \div 400
      yoe == yy - era * 400
      mp  == IF m > 2 THEN m - 3 ELSE m + 9
      doy == (153 * mp + 2) \div 5 + d - 1
      doe == yoe * 365 + yoe \div 4 - yoe \div 100 + doy
  IN  era * 146097 + doe - 719468

\* getUTCFullYear() of the instant at day number n
YearOfDays(n) ==
  LET z   == n + 719468
      era == z \div 146097
      doe == z - era * 146097
      yoe == (doe - doe \div 1460 + doe \div 36524 - doe \div 146096) \div 365
      doy == doe - (365 * yoe + yoe \div 4 - yoe \div 100)
      mp  == (5 * doy + 2) \div 153
      m   == IF mp < 10 THEN mp + 3 ELSE mp - 9
  IN  IF m <= 2 THEN yoe + era * 400 + 1 ELSE yoe + era * 400

\* getUTCDay(): 0 = Sunday .. 6 = Saturday (1970-01-01 was a Thursday)
UTCDay(n) == (n + 4) % 7

\* toUTCDate: the day number of the UTC midnight of "YYYY-MM-DD"
toUTCDate(isoDateStr) ==
  DaysFromCivil(ParseDigits(SubSeq(isoDateStr, 1, 4), 1, 0),
                ParseDigits(SubSeq(isoDateStr, 6, 7), 1, 0),
                ParseDigits(SubSeq(isoDateStr, 9, 10), 1, 0))

\* Math.round(n / 7) for an integer n: floor(n / 7 + 1/2)
RoundDiv7(n) == (2 * n + 7) \div 14

\* The week of the Thursday of the date's week, counted from the Thursday
\* of the week that holds January 4th of the ISO year
WeekInfoOfThursday(thursday, isoYear, dow) ==
  [isoYear |-> isoYear,
   week    |-> 1 + RoundDiv7(thursday - DaysFromCivil(isoYear, 1, 4)),
   dow     |-> dow]

WeekInfoOfDay(d, dow) ==
  WeekInfoOfThursday(d - dow + 3, YearOfDays(d - dow + 3), dow)

\* getISOWeekInfo counting the weeks from January 1st instead of January 4th
getISOWeekInfo_fromJan1(isoDateStr) ==
  LET d   == toUTCDate(isoDateStr)
      dow == (UTCDay(d) + 6) % 7
      thu == d - dow + 3
  IN  [isoYear |-> YearOfDays(thu),
       week    |-> 1 + RoundDiv7(thu - DaysFromCivil(YearOfDays(thu), 1, 1)),
       dow     |-> dow]

\* getISOWeekInfo (Mon = 0 .. Sun = 6)
getISOWeekInfo(isoDateStr) ==
  WeekInfoOfDay(toUTCDate(isoDateStr), (UTCDay(toUTCDate(isoDateStr)) + 6) % 7)

\* The calendar date of day number n, as [y, m, d]
CivilOfDays(n) ==
  LET z   == n + 719468
      era == z \div 146097
      doe == z - era * 146097
      yoe == (doe - doe \div 1460 + doe \div 36524 - doe \div 146096) \div 365
      doy == doe - (365 * yoe + yoe \div 4 - yoe \div 100)
      mp  == (5 * doy + 2) \div 153
      m   == IF mp < 10 THEN mp + 3 ELSE mp - 9
  IN  [y |-> IF m <= 2 THEN yoe + era * 400 + 1 ELSE yoe + era * 400,
       m |-> m,
       d |-> doy - (153 * mp + 2) \div 5 + 1]

Pad2(k) == IF k < 10 THEN "0" \o ToString(k) ELSE ToString(k)

DateStringOf(c) == ToString(c.y) \o "-" \o Pad2(c.m) \o "-" \o Pad2(c.d)

\* nyDateString's result for a calendar day: "YYYY-MM-DD"
DateString(n) == DateStringOf(CivilOfDays(n))

(* -------------------------- Safety / validation ------------------------- *)
BANNED == <<
  "nether", "the nether", "end", "the end",
  "villager", "wandering trader", "raid", "trial", "spire",
  "structure", "shipwreck", "ruins", "stronghold", "fortress", "bastion", "monument",
  "potion", "brew", "enchant", "elytra", "ender", "ender pearl",
  "command", "data pack", "datapack", "mod", "plugin", "cartography",
  "archaeology", "archeology", "brush", "sniffer"
>>

UpperCase == "ABCDEFGHIJKLMNOPQRSTUVWXYZ"
LowerCase == "abcdefghijklmnopqrstuvwxyz"

\* toLowerCase of a one-character string
LowerOf ==
  [c \in {SubSeq(UpperCase, k, k) : k \in 1..26} |->
     LET k == CHOOSE j \in 1..26 : SubSeq(UpperCase, j, j) = c
     IN  SubSeq(LowerCase, k, k)]

toLowerCaseAt(text, i) ==
  LET c == SubSeq(text, i, i)
  IN  IF c \in DOMAIN LowerOf THEN LowerOf[c] ELSE c

\* text.toLowerCase().includes(k)
lowerIncludes(text, k) ==
  \E i \in 1..(Len(text) - Len(k) + 1) :
    \A j \in 1..Len(k) : toLowerCaseAt(text, i + j - 1) = SubSeq(k, j, j)

\* JavaScript's undefined where a text is expected.  Every other text of
\* the model is a string, and no text of the source is this one.
Undefined == "<undefined>"

\* typeof text === "string"
IsString(text) == text # Undefined

\* isSafe looking at the type only
isSafe_anyString(text) == IsString(text)

\* isSafe (lines 321-323)
isSafe(text) ==
  IsString(text) /\ ~ \E n \in 1..Len(BANNED) : lowerIncludes(text, BANNED[n])

validateQuest(q) ==
  /\ IsString(q.id) /\ q.id = q.date
  /\ isSafe(q.title) /\ isSafe(q.theme)
  /\ Len(q.steps) >= 1 /\ Len(q.steps) <= 3
  /\ \A i \in 1..Len(q.steps) : isSafe(q.steps[i])

(* -------------------------------- Themes -------------------------------- *)
BASE_THEMES == <<
    [ key |-> "Farming Week",
      color |-> "#6ab04c",
      lore |-> "Nurture the land and stock your pantry.",
      biomeHints |-> <<
        "Any",
        "Plains",
        "Forest",
        "River",
        "Beach"
      >>,
      warmups |-> <<
        "Collect 20 logs and craft a crafting table, a wooden hoe, and a chest.",
        "Till soil near water and plant at least 10 seeds of any kind.",
        "Craft a composter and make at least 1 bone meal.",
        "Harvest 12 wheat or a mix of carrots/potatoes and store them in a chest.",
        "Craft a bucket and water your field with a small trench or puddle."
      >>,
      core |-> <<
        "Expand to 3 crop types (any you have) and replant what you harvest.",
        "Breed any two animals (chickens with seeds; cows/sheep with wheat; pigs with carrots).",
        "Place 12 torches around the farm to keep it safe at night.",
        "Make 3 composters and feed extras until you get 3 bone meal.",
        "Create a tiny greenhouse: walls of any block and at least 4 glass windows."
      >>,
      stretch |-> <<
        "Plant 4 saplings (any mix) and fence the area.",
        "Craft 4 bread and cook 4 other foods (any mix).",
        "Hydrate all tilled soil and plant 20 crops.",
        "Build a fenced pen and move two animals into it."
      >>,
      rewards |-> <<
        "A neatly labeled pantry chest",
        "A stack of seeds",
        "A cozy torch-lit farm",
        "A tidy orchard row"
      >> ],
    [ key |-> "Builder Week",
      color |-> "#f0932b",
      lore |-> "Shape the world with safe shelters and style.",
      biomeHints |-> <<
        "Any",
        "Forest",
        "Taiga",
        "Hills",
        "Birch Forest"
      >>,
      warmups |-> <<
        "Gather 64 blocks of any building material (wood, stone, or mixed).",
        "Smelt 8 sand into glass and set at least 2 windows in your base.",
        "Place a door, pressure plate, and a few torches for a welcoming entrance.",
        "Craft a set of stone tools and a spare furnace for your workshop.",
        "Make a roof line with slabs or stairs along one side of your base."
      >>,
      core |-> <<
        "Expand your home to at least 5@5@3 inside and light it to be mob-safe.",
        "Add a crafting table, furnace, chest, bed, and one decorative block.",
        "Lay a 10-block path from your door using any block type.",
        "Build a porch or balcony with fences as railings.",
        "Create a storage wall with 4 chests and labels."
      >>,
      stretch |-> <<
        "Add a second room or loft with stairs or ladder.",
        "Install 8 more glass blocks and a skylight.",
        "Mix 3 block types on your facade for texture.",
        "Light the perimeter with 20 torches (no dark spots)."
      >>,
      rewards |-> <<
        "A proud screenshot of your build",
        "A tidy workshop corner",
        "A labeled storage wall",
        "A sunny skylight"
      >> ],
    [ key |-> "Explorer Week",
      color |-> "#22a6b3",
      lore |-> "Venture safely, gather resources, and return with stories.",
      biomeHints |-> <<
        "Any",
        "Plains",
        "Forest",
        "Beach",
        "River",
        "Hills"
      >>,
      warmups |-> <<
        "Craft a boat and take a short paddle (about 300 blocks@estimate is fine).",
        "Craft 16 torches and a spare stone pickaxe for your journey.",
        "Collect 10 different block types and bring them back home.",
        "Cook 5 foods (any mix) to pack as snacks.",
        "Place a 6-block waypoint pillar with a torch on top near your base."
      >>,
      core |-> <<
        "Gather 24 coal or make 16 charcoal for lighting.",
        "Mine 32 cobblestone and 8 iron ore if you see any; smelt what you find.",
        "Collect 6 mushrooms total (red/brown) from caves/shade.",
        "Explore for a few minutes and safely return to base (no map needed).",
        "Light a small cave entrance with 8 torches and gather common ores you see."
      >>,
      stretch |-> <<
        "Create a safe outpost: a bed, chest, furnace, and torch ring at a new spot.",
        "Bridge a small gap or river to make travel easier next time.",
        "Build a 7-block watchtower with ladder access and a torch on top.",
        "Return with a full stack of any useful block you found."
      >>,
      rewards |-> <<
        "A scenic lookout tower",
        "A stocked travel chest",
        "A safe cave entryway",
        "A trusty docked boat"
      >> ],
    [ key |-> "Cozy Base Week",
      color |-> "#be2edd",
      lore |-> "Comfort and order@make it feel like home.",
      biomeHints |-> <<
        "Any",
        "Plains",
        "Forest",
        "Taiga",
        "River"
      >>,
      warmups |-> <<
        "Craft a bed of any color and set your spawn.",
        "Place a campfire and cook at least 2 foods on it.",
        "Label 3 chests with signs or item frames.",
        "Place 12 torches in your rooms for cozy lighting.",
        "Add a flower pot or a small plant corner."
      >>,
      core |-> <<
        "Create a kitchen nook: furnace/smoker, crafting table, and a food chest.",
        "Make a bedroom corner: bed, chest, and a window with glass.",
        "Build a sitting area using stairs/slabs as chairs and a table.",
        "Fence a small garden right outside your door.",
        "Organize your items so every chest has a purpose."
      >>,
      stretch |-> <<
        "Add a fireplace feature (campfire behind stairs/slabs).",
        "Decorate walls with mixed blocks or frames.",
        "Build a small basement or attic storage room.",
        "Light your yard perimeter so nights feel safe."
      >>,
      rewards |-> <<
        "A homey bedroom snapshot",
        "A tidy kitchen corner",
        "A charming front garden",
        "An organized attic"
      >> ],
    [ key |-> "Survival Skills Week",
      color |-> "#eb4d4b",
      lore |-> "Stay safe, prepare smart, master day-one essentials.",
      biomeHints |-> <<
        "Any",
        "Plains",
        "Forest",
        "Hills",
        "Birch Forest"
      >>,
      warmups |-> <<
        "Craft a shield if you have 1 iron; otherwise craft extra torches.",
        "Make spare tools (stone pickaxe and axe).",
        "Cook 5 foods (any) and keep them on your hotbar.",
        "Collect 24 cobblestone and 16 logs for supplies.",
        "Set your spawn and reinforce your door for night safety."
      >>,
      core |-> <<
        "Light 20 torches around your base and paths.",
        "Smelt 8 sand into glass to improve visibility and safety.",
        "If you find iron, craft shears and gather 1 wool from a sheep.",
        "Build a 5@5@3 safe room with a door and two windows.",
        "Craft a water bucket and practice a gentle descent from a small height."
      >>,
      stretch |-> <<
        "Dig an escape tunnel or a second exit from your base.",
        "Place a torch way every ~8@10 blocks along a route.",
        "Craft backup gear for future adventures.",
        "Make a mob-safe mine entrance with a door and lights."
      >>,
      rewards |-> <<
        "A fortress-cozy base",
        "A well-lit neighborhood",
        "A backup gear chest",
        "A guarded mine entrance"
      >> ]
>>

HOLIDAY_THEMES == <<
    [ key |-> "Halloween Week",
      color |-> "#ff7518",
      from |-> [month |-> 10, day |-> 25],
      to |-> [month |-> 10, day |-> 31],
      lore |-> "Spooky coziness@safe lights, pumpkins, and night-ready bases.",
      biomeHints |-> <<
        "Any",
        "Forest",
        "Taiga",
        "Hills"
      >>,
      warmups |-> <<
        "Gather 16 pumpkins or carve 6 jack-o'-lanterns with torches.",
        "Place 12 torches along a path to make a safe trick-or-treat route.",
        "Craft a scarecrow vibe near crops with fences and a jack-o'-lantern.",
        "Cook 5 foods and stock a 'treat chest' at your door.",
        "Build a tiny spooky porch with fences and a lantern."
      >>,
      core |-> <<
        "Light up your yard so no dark spots remain.",
        "Decorate your base with orange/black accents using any blocks.",
        "Create a 7-block lookout with a torch or lantern on top.",
        "Fence a small safe area where friends can gather at night.",
        "Make a cozy room with windows to watch the stars."
      >>,
      stretch |-> <<
        "Build a mini haunted garden with mushrooms and path blocks.",
        "Add hidden lighting (torches under leaves/slabs) for ambience.",
        "Make a pumpkin patch with rows and a fence gate.",
        "Set up a tiny 'costume rack' with armor stands if you have them."
      >>,
      rewards |-> <<
        "Spooky porch vibes",
        "A glowing pumpkin patch",
        "A lantern-lit yard",
        "A star-watching nook"
      >> ],
    [ key |-> "Winter Lights Week",
      color |-> "#74b9ff",
      from |-> [month |-> 12, day |-> 20],
      to |-> [month |-> 12, day |-> 31],
      lore |-> "Warm lights in the cold@cozy builds and bright paths.",
      biomeHints |-> <<
        "Any",
        "Taiga",
        "Snowy Plains",
        "Forest"
      >>,
      warmups |-> <<
        "Place 20 torches along paths to create a bright walkway.",
        "Smelt 12 sand into glass for big windows.",
        "Craft a fireplace feature with a campfire behind stairs/slabs.",
        "Cook 6 foods to share with friends.",
        "Add a spruce-style decoration (logs, leaves, or fences)."
      >>,
      core |-> <<
        "Build a lodge room with bed, chest, crafting table, and furnace.",
        "Make a glass bay window or skylight to let light in.",
        "Set up a decorated front area with leaves, fences, and lanterns/torches.",
        "Create a sledding hill look: snow layers or stairs for fun.",
        "Light the perimeter so no mobs can sneak close."
      >>,
      stretch |-> <<
        "Add an outdoor light tree using fences and torches/lanterns.",
        "Craft extra blankets (beds) for guests and place them.",
        "Build a warm kitchen corner with a smoker if you have one.",
        "Create a small frozen-pond scene with a bench (stairs) nearby."
      >>,
      rewards |-> <<
        "A bright winter path",
        "A cozy lodge room",
        "A bay-window view",
        "A festive front yard"
      >> ],
    [ key |-> "New Year Kickoff",
      color |-> "#fdcb6e",
      from |-> [month |-> 1, day |-> 1],
      to |-> [month |-> 1, day |-> 7],
      lore |-> "Fresh starts@organize, label, and light the way forward.",
      biomeHints |-> <<
        "Any",
        "Plains",
        "Forest",
        "Beach"
      >>,
      warmups |-> <<
        "Label 4 chests and sort items neatly.",
        "Craft spare stone tools and store backups.",
        "Place 16 torches to make your area bright.",
        "Smelt 8 sand into glass and add windows.",
        "Cook 5 foods and fill an 'adventure box' chest."
      >>,
      core |-> <<
        "Build a to-do board with signs and place it in your base.",
        "Make a safe mine entrance with door and lights.",
        "Create a small farm with water and fences.",
        "Add a second room or corner dedicated to storage.",
        "Lay a 12-block path connecting base to farm or mine."
      >>,
      stretch |-> <<
        "Raise a 7-block watchtower with a torch beacon.",
        "Fence your perimeter to guide future paths.",
        "Craft extra gear sets for future adventures.",
        "Landscape with 3 block types for a clean look."
      >>,
      rewards |-> <<
        "A labeled storage wall",
        "A safe mine entry",
        "A tidy farm corner",
        "A bright base perimeter"
      >> ],
    [ key |-> "Spring Garden Week",
      color |-> "#55efc4",
      from |-> [month |-> 4, day |-> 10],
      to |-> [month |-> 4, day |-> 17],
      lore |-> "Fresh growth@beds, paths, and peaceful green spaces.",
      biomeHints |-> <<
        "Any",
        "Plains",
        "Forest",
        "River"
      >>,
      warmups |-> <<
        "Plant 12 seeds and water them nearby.",
        "Craft a composter and create 2 bone meal.",
        "Add a flower bed with fences and a gate.",
        "Place 12 torches around garden paths.",
        "Cook 5 foods for a garden picnic chest."
      >>,
      core |-> <<
        "Build a glass-window garden shed: crafting table, chest, furnace.",
        "Create a seating area with slabs/stairs and a table.",
        "Mix 3 block types to decorate the garden edges.",
        "Fence off a small pond with a bench (stairs).",
        "Replant crops so the garden keeps producing."
      >>,
      stretch |-> <<
        "Expand to 3 crop types and keep them hydrated.",
        "Add a leaf archway or trellis (fences + leaves).",
        "Create a compost corner with 3 composters.",
        "Connect garden to base with a lit path."
      >>,
      rewards |-> <<
        "A peaceful pond bench",
        "A tidy garden shed",
        "A blooming flower bed",
        "A glowing path home"
      >> ],
    [ key |-> "Summer Beach Week",
      color |-> "#ffeaa7",
      from |-> [month |-> 7, day |-> 1],
      to |-> [month |-> 7, day |-> 7],
      lore |-> "Sunny builds@piers, paths, and picnic spots.",
      biomeHints |-> <<
        "Any",
        "Beach",
        "River",
        "Plains"
      >>,
      warmups |-> <<
        "Craft a boat and take a relaxing paddle.",
        "Build a small pier with slabs/fences.",
        "Place 12 torches along the shoreline path.",
        "Cook 5 foods for a beach picnic chest.",
        "Add shade: a small canopy with slabs and fences."
      >>,
      core |-> <<
        "Create a lifeguard-style perch (7-block tower with ladder).",
        "Make a boardwalk path with wood blocks/slabs.",
        "Build a changing-hut room with door, chest, and torch.",
        "Add decorative details using signs and item frames.",
        "Connect the beach to your base with a lit path."
      >>,
      stretch |-> <<
        "Expand the pier and add lanterns or more torches.",
        "Create a fishing corner with a bench (stairs).",
        "Landscape with sand/gravel/wood patterning.",
        "Add a glow-at-night shoreline (hidden lights)."
      >>,
      rewards |-> <<
        "A sunny pier view",
        "A cozy boardwalk",
        "A beach picnic chest",
        "A glowing shoreline"
      >> ]
>>

\* The first script of the generator (lines 97-98) ships both catalogs empty.
BASE_THEMES_1 == <<>>
HOLIDAY_THEMES_1 == <<>>

\* null / undefined where a theme object is expected
Null == [null |-> TRUE]
IsNull(v) == "null" \in DOMAIN v

\* theme.f || dflt, for an array-valued field
FieldOr(theme, f, dflt) == IF f \in DOMAIN theme THEN theme[f] ELSE dflt

(* ----------------------- Difficulty ramp & composition ------------------ *)
\* planForDow with the Friday row one slot short of its count
planForDow_shortRow(dow) ==
  [ count |-> <<1, 2, 2, 2, 3, 3, 3>>[dow + 1],
    mix   |-> << <<"warmup">>,
                 <<"warmup", "core">>,
                 <<"core", "core">>,
                 <<"core", "core">>,
                 <<"core", "stretch">>,
                 <<"warmup", "core", "stretch">>,
                 <<"core", "stretch", "stretch">> >>[dow + 1] ]

\* planForDow with a two-step Sunday
planForDow_lightSunday(dow) ==
  [ count |-> <<1, 2, 2, 2, 3, 3, 2>>[dow + 1],
    mix   |-> << <<"warmup">>,
                 <<"warmup", "core">>,
                 <<"core", "core">>,
                 <<"core", "core">>,
                 <<"core", "core", "stretch">>,
                 <<"warmup", "core", "stretch">>,
                 <<"core", "stretch">> >>[dow + 1] ]

planForDow(dow) ==
  [ count |-> <<1, 2, 2, 2, 3, 3, 3>>[dow + 1],
    mix   |-> << <<"warmup">>,
                 <<"warmup", "core">>,
                 <<"core", "core">>,
                 <<"core", "core">>,
                 <<"core", "core", "stretch">>,
                 <<"warmup", "core", "stretch">>,
                 <<"core", "stretch", "stretch">> >>[dow + 1] ]

(* ------------------------ Theme choosing (holiday) ---------------------- *)
\* Instants are <<day number, second of the day>>
TimeLeq(a, b) == a[1] < b[1] \/ (a[1] = b[1] /\ a[2] <= b[2])

\* The comparison of the date against the window's bounds in year y, the
\* window closing at the midnight that opens its last day
WindowHolds_endExclusive(dt, y, win) ==
  /\ TimeLeq(<<DaysFromCivil(y, win.from.month, win.from.day), 0>>, <<dt, 0>>)
  /\ <<dt, 0>> # <<DaysFromCivil(y, win.to.month, win.to.day), 0>>
  /\ TimeLeq(<<dt, 0>>, <<DaysFromCivil(y, win.to.month, win.to.day), 0>>)

\* dateInWindow with the window closing at the midnight that opens its last day
dateInWindow_endExclusive(dateStr, win) ==
  IF "from" \notin DOMAIN win \/ "to" \notin DOMAIN win THEN FALSE
  ELSE WindowHolds_endExclusive(toUTCDate(dateStr), YearOfDays(toUTCDate(dateStr)), win)

\* start <= dt && dt <= end, start at 00:00:00 of the first day and end at
\* 23:59:59 of the last day of the window in year y
WindowHolds(dt, y, win) ==
  /\ TimeLeq(<<DaysFromCivil(y, win.from.month, win.from.day), 0>>, <<dt, 0>>)
  /\ TimeLeq(<<dt, 0>>,
             <<DaysFromCivil(y, win.to.month, win.to.day), 23 * 3600 + 59 * 60 + 59>>)

dateInWindow(dateStr, win) ==
  IF "from" \notin DOMAIN win \/ "to" \notin DOMAIN win THEN FALSE
  ELSE WindowHolds(toUTCDate(dateStr), YearOfDays(toUTCDate(dateStr)), win)

\* The generator's output and state once its closure variable is s
DrawAt(s) == CASE IsWord32(s) -> [val |-> Mulberry32Out(s), seed |-> s]

\* One call of the generator whose closure variable is `seed`
Draw(seed) == DrawAt(SeedStep(seed))

\* The least index of a set of indexes, 0 for the empty set
FirstOf(hits) == IF hits = {} THEN 0 ELSE CHOOSE n \in hits : \A k \in hits : n <= k

\* holidays.find(h => dateInWindow(dateStr, h)): the index of the first
\* holiday theme whose window holds the date, 0 when there is none
FindHoliday(dateStr, holidays) ==
  FirstOf({n \in 1..Len(holidays) : dateInWindow(dateStr, holidays[n])})

\* base[Math.floor(rng() * base.length)] for the draw r
PickBase(base, r) ==
  [theme |-> IF FloorScale(r.val, Len(base)) + 1 \in DOMAIN base
             THEN base[FloorScale(r.val, Len(base)) + 1] ELSE Null,
   seed  |-> r.seed]

\* The choice of the second script once the holiday search has returned h
ChooseWith(h, seed) ==
  IF h # 0 THEN [theme |-> HOLIDAY_THEMES[h], seed |-> seed]
  ELSE IF Len(BASE_THEMES) = 0 THEN [theme |-> Null, seed |-> seed]
  ELSE PickBase(BASE_THEMES, Draw(seed))

\* chooseThemeForDate drawing the rotation index from a stream seeded by the
\* date string instead of the week stream it is handed
chooseThemeForDate_daySeeded(dateStr, seed) ==
  ChooseWith(FindHoliday(dateStr, HOLIDAY_THEMES), strHash(dateStr))

\* chooseThemeForDate of the second script (lines 650-656); the result
\* carries the generator state left behind.
chooseThemeForDate(dateStr, seed) ==
  ChooseWith(FindHoliday(dateStr, HOLIDAY_THEMES), seed)

\* The choice of the first script once the holiday search has returned h
ChooseWith_1(h, seed) ==
  IF h # 0 THEN [theme |-> HOLIDAY_THEMES_1[h], seed |-> seed]
  ELSE PickBase(BASE_THEMES_1, Draw(seed))

\* chooseThemeForDate of the first script (lines 123-128): no guard on an
\* empty rotation, BASE_THEMES[idx] is undefined when idx is out of range.
chooseThemeForDate_1(dateStr, seed) ==
  ChooseWith_1(FindHoliday(dateStr, HOLIDAY_THEMES_1), seed)

(* ----------------------------- Step selection --------------------------- *)
\* copy.splice(i, 1): the array without its element at 0-based index i
Splice(arr, i) == SubSeq(arr, 1, i) \o SubSeq(arr, i + 2, Len(arr))

RECURSIVE pickLoop(_, _, _, _)

\* const i = Math.floor(rng() * copy.length); out.push(copy.splice(i, 1)[0])
\* for the draw r, and the rest of the loop
pickAt(r, copy, out, n) ==
  pickLoop(r.seed, Splice(copy, FloorScale(r.val, Len(copy))),
           Append(out, copy[FloorScale(r.val, Len(copy)) + 1]), n - 1)

\* while (n-- > 0 && copy.length) ...
pickLoop(seed, copy, out, n) ==
  IF n > 0 /\ Len(copy) > 0
  THEN pickAt(Draw(seed), copy, out, n)
  ELSE [out |-> out, seed |-> seed]

pickN(seed, arr, n) == pickLoop(seed, arr, <<>>, n)

\* SlotPool with the stretch slot falling back to warmups
SlotPool_stretchToWarmups(slot, warmups, core, stretch) ==
  CASE slot = "warmup"  -> IF Len(warmups) > 0 THEN warmups ELSE core
    [] slot = "core"    -> IF Len(core) > 0 THEN core ELSE warmups
    [] slot = "stretch" -> IF Len(stretch) > 0 THEN stretch ELSE warmups

\* The pool a slot draws from (lines 667-669)
SlotPool(slot, warmups, core, stretch) ==
  CASE slot = "warmup"  -> IF Len(warmups) > 0 THEN warmups ELSE core
    [] slot = "core"    -> IF Len(core) > 0 THEN core ELSE warmups
    [] slot = "stretch" -> IF Len(stretch) > 0 THEN stretch ELSE core

\* for (const slot of mix.slice(0, count)) ...
RECURSIVE slotLoop(_, _, _, _, _, _, _)

\* picks.push(...p) for the pick p of slot i, and the slots after it
slotNext(slots, i, picks, p, warmups, core, stretch) ==
  slotLoop(slots, i + 1, picks \o p.out, p.seed, warmups, core, stretch)

slotLoop(slots, i, picks, seed, warmups, core, stretch) ==
  IF i > Len(slots) THEN [out |-> picks, seed |-> seed]
  ELSE slotNext(slots, i, picks,
                pickN(seed, SlotPool(slots[i], warmups, core, stretch), 1),
                warmups, core, stretch)

\* The pool the padding loop draws from (lines 674-677): core, else
\* warmups, else stretch; empty when all three are
FillPool(warmups, core, stretch) ==
  IF Len(core) > 0 THEN core ELSE IF Len(warmups) > 0 THEN warmups ELSE stretch

\* while (picks.length < count) ...
RECURSIVE fillLoop(_, _, _, _, _, _)

fillNext(picks, count, p, warmups, core, stretch) ==
  fillLoop(picks \o p.out, count, p.seed, warmups, core, stretch)

fillLoop(picks, count, seed, warmups, core, stretch) ==
  IF Len(picks) >= count \/ Len(FillPool(warmups, core, stretch)) = 0
  THEN [out |-> picks, seed |-> seed]
  ELSE fillNext(picks, count, pickN(seed, FillPool(warmups, core, stretch), 1),
                warmups, core, stretch)

\* picks.filter(s => !seen.has(s) && seen.add(s))
Dedup(picks) ==
  SelectSeq([i \in 1..Len(picks) |-> <<i, picks[i]>>],
            LAMBDA e : \A j \in 1..(e[1] - 1) : picks[j] # e[2])

Texts(pairs) == [i \in 1..Len(pairs) |-> pairs[i][2]]

Slice(arr, n) == SubSeq(arr, 1, IF Len(arr) < n THEN Len(arr) ELSE n)

\* The padding loop run on what the slot loop left
FillFrom(a, count, warmups, core, stretch) ==
  fillLoop(a.out, count, a.seed, warmups, core, stretch)

\* dedup.filter(isSafe).slice(0, count) of the picks b.out
SafeSteps(b, count) ==
  [steps |-> Slice(SelectSeq(Texts(Dedup(b.out)), isSafe), count), seed |-> b.seed]

\* stepsForDay once the plan and the three pools are known
stepsOfPlan(plan, warmups, core, stretch, seed) ==
  SafeSteps(FillFrom(slotLoop(Slice(plan.mix, plan.count), 1, <<>>, seed,
                              warmups, core, stretch),
                     plan.count, warmups, core, stretch),
            plan.count)

\* The picks array of stepsForDay as it stands at line 678, before the
\* duplicates and the unsafe strings are filtered out
picksOfPlan(plan, warmups, core, stretch, seed) ==
  FillFrom(slotLoop(Slice(plan.mix, plan.count), 1, <<>>, seed,
                    warmups, core, stretch),
           plan.count, warmups, core, stretch).out

picksForDay(theme, dow, seed) ==
  picksOfPlan(planForDow(dow), FieldOr(theme, "warmups", <<>>),
              FieldOr(theme, "core", <<>>), FieldOr(theme, "stretch", <<>>), seed)

stepsForDay(theme, dow, seed) ==
  stepsOfPlan(planForDow(dow), FieldOr(theme, "warmups", <<>>),
              FieldOr(theme, "core", <<>>), FieldOr(theme, "stretch", <<>>), seed)

(* ---------------------------- Build & fallback -------------------------- *)
hardFallback(date) ==
  [ title      |-> "Vanilla Daily Quest",
    theme      |-> "Cozy Base (Fallback)",
    color      |-> "#888888",
    id         |-> date,
    date       |-> date,
    lore       |-> "Simple, seed-agnostic goals@no commands needed.",
    biome_hint |-> "Any",
    reward     |-> "A cozy, well-lit home base",
    steps      |-> << "Gather 64 blocks and add a small room to your base.",
                      "Place 12 torches inside and 8 outside to keep the area safe." >>,
    rules      |-> << "Java & Bedrock supported. No commands, no mods, any seed.",
                      "All steps are optional@stay safe and have fun.",
                      "No special structures or dimensions are required." >>,
    redo_hint  |-> "If something feels off, pick a similar step or rerun the generator." ]

\* The built-in theme buildQuest substitutes for a null choice (lines 710-719)
DefaultTheme ==
  [ key        |-> "Cozy Base Week",
    color      |-> "#be2edd",
    lore       |-> "Comfort and order@make it feel like home.",
    biomeHints |-> <<"Any", "Plains", "Forest", "Taiga", "River">>,
    warmups    |-> <<"Place 12 torches in your rooms for cozy lighting.">>,
    core       |-> <<"Create a kitchen nook: furnace/smoker, crafting table, and a food chest.">>,
    stretch    |-> <<"Light your yard perimeter so nights feel safe.">>,
    rewards    |-> <<"A homey bedroom snapshot">> ]

\* The candidate record (lines 723-740) from the steps, the index i1 of the
\* biome hint and the draw r2 for the reward
CandidateRecord(date, theme, steps, i1, r2, hints, rewards) ==
  [ title      |-> "Vanilla Daily Quest",
    theme      |-> theme.key,
    color      |-> IF "color" \in DOMAIN theme /\ theme.color # "" THEN theme.color ELSE "#5c7cfa",
    id         |-> date,
    date       |-> date,
    lore       |-> theme.lore,
    biome_hint |-> IF i1 + 1 \in DOMAIN hints /\ hints[i1 + 1] # "" THEN hints[i1 + 1] ELSE "Any",
    reward     |-> IF FloorScale(r2.val, Len(rewards)) + 1 \in DOMAIN rewards
                   THEN rewards[FloorScale(r2.val, Len(rewards)) + 1] ELSE Undefined,
    steps      |-> steps,
    rules      |-> << "Java & Bedrock supported. No commands, no mods, any seed.",
                      "All steps are optional@keep it fun and safe.",
                      "No special structures or other dimensions are required." >>,
    redo_hint  |-> "Swap any step with another from the same theme or rerun the generator." ]

\* The draw r1 picks the biome hint, the next draw the reward
CandidateWithHint(date, theme, steps, r1, hints) ==
  CandidateRecord(date, theme, steps, FloorScale(r1.val, Len(hints)), Draw(r1.seed),
                  hints, FieldOr(theme, "rewards", <<"Bragging Rights">>))

\* The steps are drawn first, then biome_hint, then reward, from one stream
CandidateWithSteps(date, theme, st) ==
  CandidateWithHint(date, theme, st.steps, Draw(st.seed),
                    FieldOr(theme, "biomeHints", <<"Any">>))

\* The candidate record assembled from a theme (lines 721-740)
Candidate(date, theme, dow, seed) ==
  CandidateWithSteps(date, theme, stepsForDay(theme, dow, seed))

\* chooseThemeForDate(date, rng) || { the built-in theme }  (lines 709-719)
ThemeOrDefault(chosen) ==
  [theme |-> IF IsNull(chosen.theme) THEN DefaultTheme ELSE chosen.theme,
   seed  |-> chosen.seed]

\* The theme chosen on a stream seeded from the date string instead of the
\* week key
ThemeOfWeek_daySeeded(date, info) ==
  ThemeOrDefault(chooseThemeForDate(date, strHash(date)))

\* The theme buildQuest of the second script works with (lines 708-719)
ThemeOfWeek(date, info) ==
  ThemeOrDefault(chooseThemeForDate(date, rngForWeek(info.isoYear, info.week)))

ThemeForBuild(date) == ThemeOfWeek(date, getISOWeekInfo(date))

\* The return statement without the validation gate
returnValidated_ungated(quest, date) == quest

\* The return statement with a fallback record that carries a fixed id
returnValidated_fallbackId(quest, date) ==
  IF validateQuest(quest) THEN quest ELSE [hardFallback(date) EXCEPT !.id = "fallback"]

\* return validateQuest(quest) ? quest : hardFallback(date)  (line 742)
returnValidated(quest, date) ==
  IF validateQuest(quest) THEN quest ELSE hardFallback(date)

CandidateOf(date, dow, tb) == Candidate(date, tb.theme, dow, tb.seed)

buildFromInfo(date, info) ==
  returnValidated(CandidateOf(date, info.dow, ThemeOfWeek(date, info)), date)

\* buildQuest of the second script (lines 707-743)
buildQuest(date) == buildFromInfo(date, getISOWeekInfo(date))

\* A thrown exception in place of a returned value
Threw(kind) == [error |-> kind]
IsThrow(v) == "error" \in DOMAIN v

\* stepsForDay reads theme.warmups: a TypeError when the chosen theme is
\* undefined
buildWithTheme_1(date, dow, chosen) ==
  IF IsNull(chosen.theme) THEN Threw("TypeError")
  ELSE returnValidated(Candidate(date, chosen.theme, dow, chosen.seed), date)

buildFromInfo_1(date, info) ==
  buildWithTheme_1(date, info.dow,
                   chooseThemeForDate_1(date, rngForWeek(info.isoYear, info.week)))

\* buildQuest of the first script (lines 179-202)
buildQuest_1(date) == buildFromInfo_1(date, getISOWeekInfo(date))

(* --------------------------------- I/O ---------------------------------- *)
\* The content of quests/index.json: no file, a text JSON.parse rejects, or
\* the JSON value it parses to.
Missing == [kind |-> "missing"]
Garbage == [kind |-> "garbage"]
JObject == [kind |-> "object"]
JString(v) == [kind |-> "string", value |-> v]
JArray(items) == [kind |-> "array", items |-> items]

\* readJSON: the parsed value, or the fallback when reading or parsing throws
readJSON(content, fallback) ==
  IF content.kind \in {"missing", "garbage"} THEN fallback ELSE content

\* Whether the spread ...v iterates: arrays and strings do, an object throws
Iterable(v) == v.kind \in {"array", "string"}

\* The elements ...v yields: an array's items, a string's characters
SpreadOf(v) ==
  IF v.kind = "array" THEN v.items
  ELSE [i \in 1..Len(v.value) |-> SubSeq(v.value, i, i)]

\* a < b in the order Array.prototype.sort() gives strings: by code units
StrLess(a, b) ==
  \E i \in 1..((IF Len(a) < Len(b) THEN Len(a) ELSE Len(b)) + 1) :
    /\ \A j \in 1..(i - 1) : SubSeq(a, j, j) = SubSeq(b, j, j)
    /\ i <= Len(b)
    /\ i <= Len(a) => CharCodeAt(a, i) < CharCodeAt(b, i)

RECURSIVE SortAsc(_)
SortAsc(arr) ==
  IF Len(arr) <= 1 THEN arr
  ELSE LET least == CHOOSE i \in 1..Len(arr) :
                      \A j \in 1..Len(arr) : ~StrLess(arr[j], arr[i])
       IN  <<arr[least]>> \o SortAsc(Splice(arr, least - 1))

Reverse(arr) == [i \in 1..Len(arr) |-> arr[Len(arr) + 1 - i]]

\* Array.from(new Set([DATE, ...]))  keeping first occurrences, written
\* back in duplicates
MergeIndex_noSet(DATE, items) == Reverse(SortAsc(<<DATE>> \o items))

\* Array.from(new Set([DATE, ...index])).sort().reverse()  (lines 768-769)
MergeIndex(DATE, items) == Reverse(SortAsc(Texts(Dedup(<<DATE>> \o items))))

(* ------------------------------- Bounds --------------------------------- *)
\* The dates explored are those of NumYears calendar years from 2025
\* on, and the two nearest dates whose candidate record fails validation
\* (Mondays in the Winter Lights window whose single drawn step is unsafe).
NumYears == 2

FirstDay == DaysFromCivil(2025, 1, 1)
LastDay  == DaysFromCivil(2024 + NumYears, 12, 31)

RejectedDates == {"2022-12-26", "2028-12-25"}

\* The valid date strings given to the generator
ValidDates == {DateString(n) : n \in FirstDay..LastDay} \cup RejectedDates

(* -------------------------------- State --------------------------------- *)
VARIABLES
  pc,      \* where the call under study stands
  date,    \* the date string given to it
  result,  \* what buildQuest returned or threw
  other,   \* a second date string, for a pair of theme choices
  chosen,  \* the theme keys chosen for date and for other
  plan,    \* the day of week of date and its plan
  files,   \* quests/<date>.json for each date: the record in it, or NoFile
  index,   \* the content of quests/index.json
  index0,  \* the content of quests/index.json before the first run
  ran,     \* the dates main of the second script has been run for
  lastRun, \* the last run: its script, date, exit code and the index it read
  themeIn, \* the theme handed to stepsForDay
  dowIn,   \* the day of week handed to stepsForDay
  rngIn,   \* the state of the generator handed to stepsForDay
  stepsRet, \* what stepsForDay left: its picks and its return value
  genSeed, \* the seed the generators are created from
  gens,    \* per generator: the closure variable of mulberry32, or Null
  outs,    \* per generator: the values it has returned, in call order
  qIn,     \* the pools, the date and maxTries buildQuestWithFallback runs with
  passes,  \* for each run of random values: the candidate a pass builds from
           \* it and whether validateQuest accepts it
  tryNo,   \* the loop variable `attempt` of buildQuestWithFallback
  qOut,    \* what buildQuestWithFallback returned, or Null
  uiPc,    \* the widget: "start", "returned", "threw" or "mounted"
  res,     \* the response the widget's fetch resolved to, or Null
  mount,   \* the host page at #daily-quest: "none", "placeholder" or "widget"
  storage, \* localStorage: the value of each key that is set
  vote,    \* the calls of submitVote: whether Supabase is configured, the
           \* clicks, the calls past the voted check, those still awaiting,
           \* and the POSTs sent to the votes endpoint
  hIn,     \* the string handed to strHash
  hOut,    \* what strHash returned, or Null
  procs    \* per generator process running main: where it stands, its DATE
           \* and the index it has read

buildVars == <<pc, date, result, other, chosen, plan>>

fsVars == <<files, index, index0, ran, lastRun>>

stepVars == <<themeIn, dowIn, rngIn, stepsRet>>

\* The variables of the calls studied on their own
genVars == <<genSeed, gens, outs>>

askVars == <<qIn, passes, tryNo, qOut>>

uiVars == <<uiPc, res, mount, storage, vote>>

hashVars == <<hIn, hOut>>

unitVars == <<stepVars, genVars, askVars, uiVars, hashVars, procs>>

\* What a call studied on its own leaves alone
exceptSteps == <<buildVars, fsVars, genVars, askVars, uiVars, hashVars, procs>>
exceptGens == <<buildVars, fsVars, stepVars, askVars, uiVars, hashVars, procs>>
exceptAsk == <<buildVars, fsVars, stepVars, genVars, uiVars, hashVars, procs>>
exceptUi == <<buildVars, fsVars, stepVars, genVars, askVars, hashVars, procs>>
exceptHash == <<buildVars, fsVars, stepVars, genVars, askVars, uiVars, procs>>

vars == <<pc, date, result, other, chosen, plan, files, index, index0, ran, lastRun,
          themeIn, dowIn, rngIn, stepsRet, genSeed, gens, outs, qIn, passes, tryNo, qOut,
          uiPc, res, mount, storage, vote, hIn, hOut, procs>>

\* No call of stepsForDay is under study
IdleSteps == themeIn = Null /\ dowIn = 0 /\ rngIn = <<0, 0>> /\ stepsRet = Null

\* The two generators under study
GenIds == {"a", "b"}

\* No generator is under study
IdleGens ==
  /\ genSeed = <<0, 0>>
  /\ gens = [g \in GenIds |-> Null]
  /\ outs = [g \in GenIds |-> <<>>]

\* No call of buildQuestWithFallback is under study
IdleAsk == qIn = Null /\ passes = <<>> /\ tryNo = 0 /\ qOut = Null

\* No page is under study
IdleUi ==
  uiPc = "off" /\ res = Null /\ mount = "none" /\ storage = <<>> /\ vote = Null

\* No call of strHash is under study
IdleHash == hIn = "" /\ hOut = Null

\* No two processes are under study
IdleProcs == procs = <<>>

IdleUnits == IdleSteps /\ IdleGens /\ IdleAsk /\ IdleUi /\ IdleHash /\ IdleProcs

\* The dates the scripts are run for
RunDates == {"2022-12-26", "2025-10-28", "2025-11-03"}

NoFile == [absent |-> TRUE]

NoRun == [script |-> "none", date |-> "", exit |-> 0, read |-> Missing]

(* ------------------- The builder as a function of the date -------------- *)
InitBuild ==
  /\ pc = "start"
  /\ date \in ValidDates
  /\ result = Null
  /\ other = ""
  /\ chosen = <<>>
  /\ plan = Null
  /\ files = [d \in RunDates |-> NoFile]
  /\ index = Missing
  /\ index0 = Missing
  /\ ran = {}
  /\ lastRun = NoRun
  /\ IdleUnits

\* buildQuest(DATE) of the second script
CallBuildQuest ==
  /\ pc = "start"
  /\ result' = buildQuest(date)
  /\ pc' = "built"
  /\ UNCHANGED <<date, other, chosen, plan>>
  /\ UNCHANGED fsVars
  /\ UNCHANGED unitVars

\* buildQuest(DATE) of the first script
CallBuildQuest_1 ==
  /\ pc = "start"
  /\ result' = buildQuest_1(date)
  /\ pc' = "built1"
  /\ UNCHANGED <<date, other, chosen, plan>>
  /\ UNCHANGED fsVars
  /\ UNCHANGED unitVars

\* The theme buildQuest chooses on a fresh week stream (lines 708-710)
ThemeKeyFor(dateStr) == ThemeForBuild(dateStr).theme.key

\* The theme choice for date and for a date one to six days later
CallChooseTheme(k) ==
  /\ pc = "start"
  /\ other' = DateString(toUTCDate(date) + k)
  /\ chosen' = <<ThemeKeyFor(date), ThemeKeyFor(other')>>
  /\ pc' = "chosen"
  /\ UNCHANGED <<date, result, plan>>
  /\ UNCHANGED fsVars
  /\ UNCHANGED unitVars

\* buildQuest(DATE) for date and for the day after it, each call starting
\* its own stream (line 708)
CallBuildQuestTwice ==
  /\ pc = "start"
  /\ other' = DateString(toUTCDate(date) + 1)
  /\ chosen' = <<buildQuest(date), buildQuest(other')>>
  /\ pc' = "pair"
  /\ UNCHANGED <<date, result, plan>>
  /\ UNCHANGED fsVars
  /\ UNCHANGED unitVars

PlanOf(dow) ==
  [dow |-> dow, count |-> planForDow(dow).count, mix |-> planForDow(dow).mix]

\* planForDow(dow) as stepsForDay calls it for date
CallPlanForDow ==
  /\ pc = "start"
  /\ plan' = PlanOf(getISOWeekInfo(date).dow)
  /\ pc' = "planned"
  /\ UNCHANGED <<date, result, other, chosen>>
  /\ UNCHANGED fsVars
  /\ UNCHANGED unitVars

NextBuild ==
  \/ CallBuildQuest
  \/ CallBuildQuest_1
  \/ \E k \in 1..6 : CallChooseTheme(k)
  \/ CallBuildQuestTwice
  \/ CallPlanForDow

SpecBuild == InitBuild /\ [][NextBuild]_vars

(* ------------------------- Claims about the builder --------------------- *)
\* C1: for every valid date d the record buildQuest(d) returns satisfies
\* validateQuest, and so does the hardcoded fallback record for d.
C1_BuiltRecordIsValid ==
  pc = "built" => validateQuest(result) /\ validateQuest(hardFallback(date))

\* C1 witness: a build whose candidate failed validation returned the fallback.
C1_FallbackReturned ==
  pc = "built" /\ result = hardFallback(date)

\* C3: for every valid date d, buildQuest(d) returns a record with
\* id = date = d, on the generated path and on the fallback path.
C3_IdIsDate ==
  pc = "built" => result.id = date /\ result.date = date

\* C3 witness: the fallback path was taken for the date.
C3_FallbackPathTaken ==
  pc = "built" /\ result.theme = "Cozy Base (Fallback)" /\ result.id = date

\* The month and day written in a date string
MonthDay(dateStr) ==
  <<ParseDigits(SubSeq(dateStr, 6, 7), 1, 0), ParseDigits(SubSeq(dateStr, 9, 10), 1, 0)>>

MonthDayLeq(a, b) == a[1] < b[1] \/ (a[1] = b[1] /\ a[2] <= b[2])

\* The holiday windows, in catalog order, whose month/day range holds the date
WindowsHolding(dateStr) ==
  {n \in 1..Len(HOLIDAY_THEMES) :
     /\ MonthDayLeq(<<HOLIDAY_THEMES[n].from.month, HOLIDAY_THEMES[n].from.day>>, MonthDay(dateStr))
     /\ MonthDayLeq(MonthDay(dateStr), <<HOLIDAY_THEMES[n].to.month, HOLIDAY_THEMES[n].to.day>>)}

SameISOWeek(d1, d2) ==
  /\ getISOWeekInfo(d1).isoYear = getISOWeekInfo(d2).isoYear
  /\ getISOWeekInfo(d1).week = getISOWeekInfo(d2).week

\* C4: two dates of the same ISO week that are both outside every holiday
\* window are given the same base theme (same key).
C4_SameWeekSameTheme ==
  (/\ pc = "chosen"
   /\ SameISOWeek(date, other)
   /\ WindowsHolding(date) = {}
   /\ WindowsHolding(other) = {})
  => chosen[1] = chosen[2]

\* C4 witness: two different dates of one ISO week, no holiday, themes chosen.
C4_TwoDatesOneWeek ==
  /\ pc = "chosen"
  /\ date # other
  /\ SameISOWeek(date, other)
  /\ WindowsHolding(date) = {}
  /\ WindowsHolding(other) = {}
  /\ chosen[1] = chosen[2]

\* C5: a date inside a holiday window gets that holiday's theme, the first
\* matching window in catalog order winning; 2025-10-28 gets the theme of
\* the Oct 25-31 window.
C5_HolidayWins ==
  pc = "chosen" =>
    /\ WindowsHolding(date) # {} =>
         chosen[1] = HOLIDAY_THEMES[CHOOSE n \in WindowsHolding(date) :
                                     \A k \in WindowsHolding(date) : n <= k].key
    /\ date = "2025-10-28" => chosen[1] = "Halloween Week"

\* C5 witness: the theme was chosen for 2025-10-28, inside the first window.
C5_Oct28Chosen ==
  pc = "chosen" /\ date = "2025-10-28" /\ WindowsHolding(date) = {1}

\* C8: buildQuest is total: for every valid date it returns a record and
\* never throws, an empty base rotation being replaced by a default theme.
C8_BuildQuestTotal ==
  pc \in {"built", "built1"} => ~IsThrow(result)

\* C10: for every dow in 0..6 the slot sequence of planForDow(dow) has
\* exactly count entries, all among warmup, core and stretch; Monday
\* (dow 0, such as 2025-11-03) has count 1 and the sequence <<warmup>>.
C10_PlanShape ==
  pc = "planned" =>
    /\ plan.dow \in 0..6
    /\ Len(plan.mix) = plan.count
    /\ \A i \in 1..Len(plan.mix) : plan.mix[i] \in {"warmup", "core", "stretch"}
    /\ plan.dow = 0 => plan.count = 1 /\ plan.mix = <<"warmup">>
    /\ date = "2025-11-03" => plan.dow = 0

\* C10 witness: the plan of 2025-11-03, a Monday.
C10_MondayPlanned ==
  pc = "planned" /\ date = "2025-11-03" /\ plan.count = 1

(* --------------------- The generator run against the disk --------------- *)
\* What quests/index.json may hold before the first run: nothing, text that
\* does not parse, a JSON object, a JSON string, or an array of date strings
\* as the generator leaves it.
InitIndexes ==
  { Missing, Garbage, JObject, JString("2025-11-01"),
    JArray(<<>>), JArray(<<"2025-11-01">>),
    JArray(<<"2025-11-04", "2025-11-01">>),
    JArray(<<"2025-11-03", "2025-10-28">>) }

Init ==
  /\ pc = "fs"
  /\ date = ""
  /\ result = Null
  /\ other = ""
  /\ chosen = <<>>
  /\ plan = Null
  /\ files = [d \in RunDates |-> NoFile]
  /\ index \in InitIndexes
  /\ index0 = index
  /\ ran = {}
  /\ lastRun = NoRun
  /\ IdleUnits

\* main with the index rewritten and the record left unwritten
MainWrites_skipRecord(DATE, quest, idx) ==
  /\ UNCHANGED files
  /\ index' = IF Iterable(idx)
               THEN JArray(MergeIndex(DATE, SpreadOf(idx)))
               ELSE index
  /\ lastRun' = [script |-> "main", date |-> DATE,
                  exit |-> IF Iterable(idx) THEN 0 ELSE 1, read |-> index]

\* The writes of main once the record is built and the index read
MainWrites(DATE, quest, idx) ==
  /\ files' = [files EXCEPT ![DATE] = quest]
  /\ index' = IF Iterable(idx)
               THEN JArray(MergeIndex(DATE, SpreadOf(idx)))
               ELSE index
  /\ lastRun' = [script |-> "main", date |-> DATE,
                  exit |-> IF Iterable(idx) THEN 0 ELSE 1, read |-> index]

\* main of the second script (lines 754-773): the record is written, then
\* the index is read, merged and rewritten; a spread that throws ends the
\* run with a non-zero exit code after the record was written.
Main(DATE) ==
  /\ pc = "fs"
  /\ MainWrites(DATE, buildQuest(DATE), readJSON(index, JArray(<<>>)))
  /\ ran' = ran \cup {DATE}
  /\ UNCHANGED <<index0, buildVars>>
  /\ UNCHANGED unitVars

\* main of the first script (lines 213-232): buildQuest throws before
\* anything is written.
Main_1(DATE) ==
  /\ pc = "fs"
  /\ IsThrow(buildQuest_1(DATE))
  /\ lastRun' = [script |-> "main_1", date |-> DATE, exit |-> 1, read |-> Missing]
  /\ UNCHANGED <<files, index, index0, ran, buildVars>>
  /\ UNCHANGED unitVars

Next ==
  \/ \E DATE \in RunDates : Main(DATE)
  \/ \E DATE \in RunDates : Main_1(DATE)

Spec == Init /\ [][Next]_vars

(* ---------------------- Claims about persisted records ------------------ *)
\* Whether text holds a term of the denylist, in any letter case
ContainsBanned(text) ==
  \E n \in 1..Len(BANNED) : lowerIncludes(text, BANNED[n])

\* The texts of a record's fields, id, date and color apart
FieldTexts(q) ==
  {q.title, q.theme, q.lore, q.biome_hint, q.reward, q.redo_hint}
    \cup {q.steps[i] : i \in 1..Len(q.steps)}
    \cup {q.rules[i] : i \in 1..Len(q.rules)}

\* The texts of the fields validateQuest and stepsForDay screen, with the
\* two fields every record fills from texts free of denylisted terms
CleanTexts(q) ==
  {q.title, q.theme, q.biome_hint, q.redo_hint}
    \cup {q.steps[i] : i \in 1..Len(q.steps)}

\* C2 as stated: no field of the record main writes (title, theme, lore,
\* biome_hint, reward, every step, every rules line, redo_hint) contains a
\* term of BANNED as a case-insensitive substring.
C2_NoFieldHoldsBannedTerm ==
  pc = "built" => \A text \in FieldTexts(result) : ~ContainsBanned(text)

\* C2 amended: title, theme, biome_hint, redo_hint and every step of the
\* record main writes contain no term of BANNED, and neither does the lore
\* of a generated record; the rules lines of every record hold "command"
\* and "mod", the lore of the fallback record holds "command", and the
\* reward is never screened.
C2_ScreenedFieldsClean ==
  pc = "built" =>
    /\ \A text \in CleanTexts(result) : ~ContainsBanned(text)
    /\ result # hardFallback(date) => ~ContainsBanned(result.lore)
    /\ \A i \in 1..Len(result.rules) : ContainsBanned(result.rules[i]) <=> i # 2
    /\ result = hardFallback(date) => ContainsBanned(result.lore)

\* C2 witness: a generated record was built whose reward holds a
\* denylisted term while its screened fields hold none.
C2_UnscreenedRewardWritten ==
  /\ pc = "built"
  /\ result # hardFallback(date)
  /\ ContainsBanned(result.reward)
  /\ Len(result.steps) >= 1

(* -------------------------- Claims about the index ---------------------- *)
IndexSet(v) == {v.items[i] : i \in 1..Len(v.items)}

\* C6: after any sequence of runs starting from an index that is an array
\* of date strings, the index holds exactly its earlier entries plus every
\* date that was run, each exactly once, the most recent date first.
C6_IndexMergedOnceDescending ==
  index0.kind = "array" =>
    /\ index.kind = "array"
    /\ IndexSet(index) = IndexSet(index0) \cup ran
    /\ \A d \in IndexSet(index) :
         Cardinality({i \in 1..Len(index.items) : index.items[i] = d}) = 1
    /\ \A i, j \in 1..Len(index.items) :
         i < j => toUTCDate(index.items[i]) > toUTCDate(index.items[j])

\* C6 witness: a run for a date the index it read already held, after runs
\* for two dates, starting from an index of two entries.
C6_RerunOfIndexedDate ==
  /\ index0.kind = "array" /\ Len(index0.items) = 2
  /\ lastRun.script = "main"
  /\ lastRun.read.kind = "array"
  /\ lastRun.date \in IndexSet(lastRun.read)
  /\ Cardinality(ran) >= 2

\* C9 as stated: a run that reads a missing or corrupt index (unparseable,
\* or parseable but not an array) exits with code 0 and leaves the index
\* as the one-element array of its date.
C9_CorruptIndexTreatedAsEmpty ==
  (lastRun.script = "main" /\ lastRun.read.kind # "array") =>
    /\ lastRun.exit = 0
    /\ index = JArray(<<lastRun.date>>)

(* ------------------- The question generator (generate-quest.js) --------- *)
questionsCore == <<
  "Can you collect 20 logs of any wood and craft a crafting table and some sticks?",
  "Can you mine 20 cobblestone and use it to craft a furnace and a stone pickaxe?",
  "Can you make 16 torches using coal or charcoal and place them around a safe base area?",
  "Can you smelt 8 sand into 8 glass using any fuel in your furnace?",
  "Can you cook 5 pieces of any food (like raw meat, fish, or potatoes) using a furnace, smoker, or campfire?",
  "Can you plant at least 10 seeds (any kind) and water them nearby so they start growing?",
  "Can you harvest 12 wheat (or mix of carrots/potatoes) and craft 4 bread if you have wheat?",
  "Can you craft a composter and use it to turn extra plants into at least 1 bone meal?",
  "Can you build a small shelter (at least 5@5@3) with a door and a window made of glass?",
  "Can you craft a bed of any color and sleep to set your spawn point?",
  "Can you safely light up the area around your base with at least 20 torches to keep mobs away?",
  "Can you feed and breed chickens using seeds to get at least 1 baby chick?",
  "Can you gently gather 1 wool by shearing a sheep with shears you crafted from 2 iron (if you find iron)?",
  "Can you lead an animal (like a cow, sheep, or chicken) into a tiny pen you build with fences?",
  "Can you explore for a few minutes and bring back 10 different block types (like dirt, sand, gravel, logs, leaves, and stone)?",
  "Can you collect 6 mushrooms total (red or brown) from caves or shady spots and store them safely?",
  "Can you craft a boat and paddle across water for a short trip (about 300 blocks, just estimate)?",
  "Can you craft and place a campfire, then use it to cook at least 2 pieces of food?"
>>

questionsExtra == <<
  "Can you craft a chest and organize today@s items so everything has a tidy spot?",
  "Can you craft a set of stone tools (pickaxe, axe, shovel, sword, and hoe)?",
  "Can you collect 16 coal (or make charcoal by smelting logs) so you never run out of torches?",
  "Can you make a tiny garden with a water source block and plant 3 different crops if you have them?",
  "Can you decorate your base with 4 different block types so it feels cozy?"
>>

biomeHints_Q == <<
  "Any",
  "Plains",
  "Forest",
  "Taiga",
  "Birch Forest",
  "Savanna",
  "Beach",
  "River",
  "Hills"
>>

rewards_Q == <<
  "A Proud Screenshot of Your Base",
  "A Shiny Stone Tool Set You Crafted",
  "A Cozy, Well-Lit Home Base",
  "A Stack of Torches for Tomorrow",
  "A Picnic of 5 Cooked Foods"
>>

BANNED_KEYWORDS == <<
  "nether",
  "end",
  "villager",
  "wandering trader",
  "structure",
  "shipwreck",
  "ruins",
  "stronghold",
  "fortress",
  "bastion",
  "potion",
  "brew",
  "enchant",
  "elytra",
  "ender",
  "command",
  "data pack",
  "datapack",
  "mod",
  "plugin",
  "map and compass",
  "cartography",
  "ocean monument"
>>

\* Math.random() is drawn from a stream of RandLen values k / RandDen,
\* k in 0..RandDen-1, read cyclically.
RandDen == 2
RandLen == 2

RandomStreams == [1..RandLen -> 0..(RandDen - 1)]

\* Math.floor(Math.random() * len) at position pos of the stream
RandIndex(rs, pos, len) == (rs[((pos - 1) % RandLen) + 1] * len) \div RandDen

RECURSIVE pickLoop_Q(_, _, _, _, _)
pickLoop_Q(rs, pos, copy, out, n) ==
  IF n > 0 /\ Len(copy) > 0
  THEN LET i == RandIndex(rs, pos, Len(copy))
       IN  pickLoop_Q(rs, pos + 1, Splice(copy, i), Append(out, copy[i + 1]), n - 1)
  ELSE [out |-> out, pos |-> pos]

pickN_Q(rs, pos, arr, n) == pickLoop_Q(rs, pos, arr, <<>>, n)

\* stepsCountForDate reading day 0 as Monday
stepsCountForDate_mondayFirst(d) ==
  LET dow == (UTCDay(toUTCDate(d)) + 6) % 7
  IN  IF dow = 0 THEN 1 ELSE IF dow = 5 \/ dow = 6 THEN 3 ELSE 2

\* new Date(d).getUTCDay(): Sunday 1 step, Friday and Saturday 3, else 2
stepsCountForDate(d) ==
  LET dow == UTCDay(toUTCDate(d))
  IN  IF dow = 0 THEN 1 ELSE IF dow = 5 \/ dow = 6 THEN 3 ELSE 2

\* String.prototype.trim, for texts whose only white space is the space
RECURSIVE trim(_)
trim(text) ==
  IF Len(text) > 0 /\ SubSeq(text, 1, 1) = " "
    THEN trim(SubSeq(text, 2, Len(text)))
  ELSE IF Len(text) > 0 /\ SubSeq(text, Len(text), Len(text)) = " "
    THEN trim(SubSeq(text, 1, Len(text) - 1))
  ELSE text

endsWith(text, c) == Len(text) > 0 /\ SubSeq(text, Len(text), Len(text)) = c

isSafeQuestion(q) ==
  /\ IsString(q)
  /\ endsWith(trim(q), "?")
  /\ ~ \E n \in 1..Len(BANNED_KEYWORDS) : lowerIncludes(q, BANNED_KEYWORDS[n])

validateQuest_Q(quest) ==
  /\ ~IsNull(quest)
  /\ Len(quest.steps) >= 1 /\ Len(quest.steps) <= 3
  /\ \A i \in 1..Len(quest.steps) : isSafeQuestion(quest.steps[i])

\* s.trim().endsWith("?") ? s.trim() : `${s.trim()}?`
ensureQuestion(s) == IF endsWith(trim(s), "?") THEN trim(s) ELSE trim(s) \o "?"

\* base.map(...).slice(0, 3) once base holds its padding
questionSteps(all, pos) ==
  [steps |-> Slice([i \in 1..Len(all) |-> ensureQuestion(all[i])], 3), pos |-> pos]

\* if (base.length < needed) base.push(...pickN(questionsExtra, ...))
padded(base, extra) == questionSteps(base.out \o extra.out, extra.pos)

padSteps(extra, needed, rs, base) ==
  padded(base, IF Len(base.out) < needed
               THEN pickN_Q(rs, base.pos, extra, needed - Len(base.out))
               ELSE [out |-> <<>>, pos |-> base.pos])

\* stepsForDate once `needed` is known, for the pools core and extra
stepsNeeded(core, extra, needed, rs, pos) ==
  padSteps(extra, needed, rs,
           pickN_Q(rs, pos, core, IF needed < 3 THEN needed ELSE 3))

\* stepsForDate (lines 136-146) reading its two pools from `pools`
stepsForDateOf(pools, d, rs, pos) ==
  stepsNeeded(pools.core, pools.extra, stepsCountForDate(d), rs, pos)

\* The pools as the file defines them (lines 28-67)
ShippedPools == [core |-> questionsCore, extra |-> questionsExtra]

stepsForDate(d, rs, pos) == stepsForDateOf(ShippedPools, d, rs, pos)

\* HARDCODED_FALLBACK with its steps phrased as statements
HARDCODED_FALLBACK_statements(DATE) ==
  [ title      |-> "Vanilla Daily Quest",
    id         |-> DATE,
    date       |-> DATE,
    lore       |-> "Simple, seed-agnostic challenges you can finish in survival (Java & Bedrock).",
    biome_hint |-> "Any",
    reward     |-> "A Proud Screenshot of Your Base",
    steps      |-> << "Collect 20 logs.", "Make 16 torches." >>,
    rules      |-> << >>,
    redo_hint  |-> "" ]

HARDCODED_FALLBACK(DATE) ==
  [ title      |-> "Vanilla Daily Quest",
    id         |-> DATE,
    date       |-> DATE,
    lore       |-> "Simple, seed-agnostic challenges you can finish in survival (Java & Bedrock).",
    biome_hint |-> "Any",
    reward     |-> "A Proud Screenshot of Your Base",
    steps      |-> << "Can you collect 20 logs, craft a crafting table, some sticks, and a stone pickaxe?",
                      "Can you make 16 torches (coal or charcoal) and light up your base to keep mobs away?" >>,
    rules      |-> << "Vanilla survival only. No commands, no mods, any seed.",
                      "All steps are optional@play safely and have fun.",
                      "You never need special structures or dimensions for these quests." >>,
    redo_hint  |-> "If something seems unclear, just rerun the generator or pick another simple goal you enjoy today!" ]

maxTries == 10

\* The record one pass assembles: biome_hint and reward are drawn before
\* the steps (lines 172-189)
QuestOf(DATE, rs, pos, steps) ==
  [ title      |-> "Vanilla Daily Quest",
    id         |-> DATE,
    date       |-> DATE,
    lore       |-> "Kid-friendly, seed-agnostic challenges you can finish in survival@no commands needed.",
    biome_hint |-> biomeHints_Q[RandIndex(rs, pos, Len(biomeHints_Q)) + 1],
    reward     |-> rewards_Q[RandIndex(rs, pos + 1, Len(rewards_Q)) + 1],
    steps      |-> steps,
    rules      |-> << "Java and Bedrock both supported. No commands, no mods, any seed.",
                      "All steps are optional@stay safe, keep it fun.",
                      "Everything here avoids special structures and other dimensions." >>,
    redo_hint  |-> "If a step feels unclear in your world, swap it with another question you like or rerun the generator." ]

\* for (let attempt = 1; attempt <= maxTries; attempt++) ...
RECURSIVE attemptLoop(_, _, _, _)

\* if (validateQuest(quest)) return quest, else the next pass
attemptCheck(DATE, attempt, rs, pos, quest) ==
  IF validateQuest_Q(quest) THEN quest ELSE attemptLoop(DATE, attempt + 1, rs, pos)

attemptWith(DATE, attempt, rs, pos, st) ==
  attemptCheck(DATE, attempt, rs, st.pos, QuestOf(DATE, rs, pos, st.steps))

attemptLoop(DATE, attempt, rs, pos) ==
  IF attempt > maxTries THEN HARDCODED_FALLBACK(DATE)
  ELSE attemptWith(DATE, attempt, rs, pos, stepsForDate(DATE, rs, pos + 2))

buildQuestWithFallback(DATE, rs) == attemptLoop(DATE, 1, rs, 1)

(* ----------------------- The LLM generator (part_000) ------------------- *)
\* What generateObject may come back with: a failed call, or an object
ApiError == [error |-> "API"]

LLMReplies ==
  { ApiError,
    [ title     |-> "The Whispering Acacia",
      lore      |-> "In savanna winds, a lone tree hums with ancient songs...",
      steps     |-> <<"Find acacia at sunset", "Dig beneath for buried map">>,
      reward    |-> "Enchanted golden apple blueprint",
      biomeHint |-> "Savanna" ],
    [ title     |-> "  The Echoing Forge ",
      lore      |-> "A forge rings under the hills where no smith has stood for years. ",
      steps     |-> <<" Follow the ringing to a cave mouth ">>,
      reward    |-> "A stone anvil marker",
      biomeHint |-> " Windswept Hills" ],
    [ title     |-> "Echo",
      lore      |-> "Too short.",
      steps     |-> <<>>,
      reward    |-> "Nothing",
      biomeHint |-> "Any" ] }

LenIn(text, lo, hi) == Len(text) >= lo /\ Len(text) <= hi

\* The zod schema generateObject validates the object against (lines 43-51)
SchemaOk(object) ==
  /\ LenIn(object.title, 5, 60)
  /\ LenIn(object.lore, 30, 180)
  /\ LenIn(object.steps, 1, 3)
  /\ \A i \in 1..Len(object.steps) : LenIn(object.steps[i], 10, 140)
  /\ LenIn(object.reward, 10, 100)
  /\ LenIn(object.biomeHint, 5, 50)

\* today.replace(/-/g, "")
RECURSIVE RemoveDashes(_)
RemoveDashes(text) ==
  IF Len(text) = 0 THEN ""
  ELSE (IF SubSeq(text, 1, 1) = "-" THEN "" ELSE SubSeq(text, 1, 1))
         \o RemoveDashes(SubSeq(text, 2, Len(text)))

\* The record generateQuest assembles from the object (lines 77-85)
LLMQuest(today, object) ==
  [ date      |-> today,
    id        |-> RemoveDashes(today),
    title     |-> trim(object.title),
    lore      |-> trim(object.lore),
    steps     |-> [i \in 1..Len(object.steps) |-> trim(object.steps[i])],
    reward    |-> trim(object.reward),
    biomeHint |-> trim(object.biomeHint) ]

(* ------------------------ The three writers on one disk ----------------- *)
\* The dates the three scripts are run for
WriterDates == {"2025-10-28", "2025-11-03"}

InitWriters ==
  /\ pc = "fs"
  /\ date = ""
  /\ result = Null
  /\ other = ""
  /\ chosen = <<>>
  /\ plan = Null
  /\ files = [d \in RunDates |-> NoFile]
  /\ index = Missing
  /\ index0 = Missing
  /\ ran = {}
  /\ lastRun = NoRun
  /\ IdleUnits

\* generate-quest.js run with DATE (lines 199-204): the record is built and
\* written to quests/<DATE>.json whatever is there.
RunQuestion(DATE, rs) ==
  /\ pc = "fs"
  /\ files' = [files EXCEPT ![DATE] = buildQuestWithFallback(DATE, rs)]
  /\ lastRun' = [script |-> "question", date |-> DATE, exit |-> 0, read |-> Missing]
  /\ UNCHANGED <<index, index0, ran, buildVars>>
  /\ UNCHANGED unitVars

\* generateQuest of part_000 run on the day today (lines 21-96): an
\* existing file ends the run; a failed or rejected reply exits with 1.
RunLLM(today, reply) ==
  /\ pc = "fs"
  /\ IF files[today] # NoFile
     THEN /\ lastRun' = [script |-> "llm", date |-> today, exit |-> 0, read |-> Missing]
          /\ UNCHANGED files
     ELSE IF reply = ApiError \/ ~SchemaOk(reply)
     THEN /\ lastRun' = [script |-> "llm", date |-> today, exit |-> 1, read |-> Missing]
          /\ UNCHANGED files
     ELSE /\ files' = [files EXCEPT ![today] = LLMQuest(today, reply)]
          /\ lastRun' = [script |-> "llm", date |-> today, exit |-> 0, read |-> Missing]
  /\ UNCHANGED <<index, index0, ran, buildVars>>
  /\ UNCHANGED unitVars

NextWriters ==
  \/ \E DATE \in WriterDates : Main(DATE)
  \/ \E DATE \in WriterDates : \E rs \in RandomStreams : RunQuestion(DATE, rs)
  \/ \E today \in WriterDates : \E reply \in LLMReplies : RunLLM(today, reply)

SpecWriters == InitWriters /\ [][NextWriters]_vars

(* ------------------------- Claims about the writers --------------------- *)
\* C7 as stated: a run for a date whose quests/<date>.json already exists
\* leaves that file unchanged (no script takes a flag that forces it).
C7_ExistingFileKept ==
  [][\A d \in RunDates : files[d] # NoFile => files'[d] = files[d]]_vars

(* ---------------------- Claims about the difficulty ramp ---------------- *)
\* The days of the week (0 = Monday .. 6 = Sunday) whose plan has count n
DaysWithCount(n) == {d \in 0..6 : planForDow(d).count = n}

\* The count never decreases from Monday to the planned day, nor from the
\* planned day to Sunday, and Monday's count is 1
RampThrough(p) ==
  /\ planForDow(0).count = 1
  /\ \A d \in 0..6 : d <= p.dow => planForDow(d).count <= p.count
  /\ \A d \in 0..6 : d >= p.dow => planForDow(d).count >= p.count

\* C11 as stated: the count ramps from 1 and never decreases from Monday to
\* Sunday, it is 3 on two days of the week and below 3 on the other five.
C11_ThreeOnTwoDays ==
  pc = "planned" =>
    /\ RampThrough(plan)
    /\ Cardinality(DaysWithCount(3)) = 2
    /\ Cardinality({d \in 0..6 : planForDow(d).count < 3}) = 5

\* C11 amended: the count ramps from 1 on Monday and never decreases from
\* Monday to Sunday; it is 3 on three days (Friday, Saturday, Sunday), 2 on
\* three days (Tuesday to Thursday) and 1 on Monday.
C11_ThreeOnThreeDays ==
  pc = "planned" =>
    /\ RampThrough(plan)
    /\ plan.count = (IF plan.dow = 0 THEN 1 ELSE IF plan.dow <= 3 THEN 2 ELSE 3)
    /\ DaysWithCount(3) = {4, 5, 6}
    /\ DaysWithCount(2) = {1, 2, 3}
    /\ DaysWithCount(1) = {0}

\* C11 witness: a Sunday was planned, with three steps.
C11_SundayPlanned ==
  pc = "planned" /\ plan.dow = 6 /\ plan.count = 3 /\ Len(plan.mix) = 3

(* ----------------------- stepsForDay called on its own ------------------ *)
\* The number of week streams stepsForDay is run with
NumStreams == 4

\* The generator states handed over: the streams of the first weeks of 2023
StepSeeds == {rngForWeek(2023, w) : w \in 1..NumStreams}

\* Pools for the themes that are not in the catalog
WarmupPools == { <<>>, <<"Dig a well.">> }

CorePools ==
  { <<>>, <<"Plant a tree.">>, <<"Plant a tree.", "Shear a sheep.">>,
    <<"Plant a tree.", Undefined>>, <<"Start a raid.">> }

StretchPools == { <<>>, <<"Build a dock.">> }

\* Themes outside the catalog: every combination of the pools above, and a
\* theme with no pool at all
SyntheticThemes ==
  { [key |-> "Synthetic", warmups |-> w, core |-> c, stretch |-> s] :
      w \in WarmupPools, c \in CorePools, s \in StretchPools }
  \cup { [key |-> "Bare"] }

CatalogThemes ==
  {BASE_THEMES[n] : n \in 1..Len(BASE_THEMES)}
  \cup {HOLIDAY_THEMES[n] : n \in 1..Len(HOLIDAY_THEMES)}

\* No build and no run of a script is under study
IdleBuild ==
  /\ pc = "unit" /\ date = "" /\ result = Null /\ other = ""
  /\ chosen = <<>> /\ plan = Null

IdleDisk ==
  /\ files = [d \in RunDates |-> NoFile] /\ index = Missing /\ index0 = Missing
  /\ ran = {} /\ lastRun = NoRun

InitSteps ==
  /\ IdleBuild
  /\ IdleDisk
  /\ themeIn \in CatalogThemes \cup SyntheticThemes
  /\ dowIn \in 0..6
  /\ rngIn \in StepSeeds
  /\ stepsRet = Null
  /\ IdleGens
  /\ IdleAsk
  /\ IdleUi
  /\ IdleHash
  /\ IdleProcs

\* stepsForDay(theme, dow, rng) (lines 659-681)
CallStepsForDay ==
  /\ IsNull(stepsRet)
  /\ stepsRet' = [ picks |-> picksForDay(themeIn, dowIn, rngIn),
                   steps |-> stepsForDay(themeIn, dowIn, rngIn).steps ]
  /\ UNCHANGED <<themeIn, dowIn, rngIn, exceptSteps>>

NextSteps == CallStepsForDay

SpecSteps == InitSteps /\ [][NextSteps]_vars

(* ------------------------- Claims about stepsForDay --------------------- *)
PoolIn(f) == FieldOr(themeIn, f, <<>>)

Members(arr) == {arr[n] : n \in 1..Len(arr)}

\* The plan has a stretch slot, the stretch pool is empty, core is not
StretchFromCore ==
  /\ Len(PoolIn("stretch")) = 0
  /\ Len(PoolIn("core")) > 0
  /\ \E i \in 1..planForDow(dowIn).count : planForDow(dowIn).mix[i] = "stretch"

\* C12: when the plan has a stretch slot and the stretch pool is empty while
\* core is not, the pick of that slot comes from core; whatever the theme and
\* the day, every entry of the returned array is a string (none is undefined)
\* and the array is no longer than the plan's count.
C12_StretchFallsBackToCore ==
  ~ IsNull(stepsRet) =>
    /\ \A i \in 1..Len(stepsRet.steps) : IsString(stepsRet.steps[i])
    /\ Len(stepsRet.steps) <= planForDow(dowIn).count
    /\ StretchFromCore =>
         \A i \in 1..planForDow(dowIn).count :
            planForDow(dowIn).mix[i] = "stretch" =>
              /\ i <= Len(stepsRet.picks)
              /\ stepsRet.picks[i] \in Members(PoolIn("core"))

\* C12 witness: a Sunday call with an empty stretch pool has returned, an
\* undefined pick was filtered out and a step from core was kept.
C12_StretchSlotFilledFromCore ==
  /\ ~ IsNull(stepsRet)
  /\ StretchFromCore
  /\ dowIn = 6
  /\ Undefined \in Members(stepsRet.picks)
  /\ Len(stepsRet.steps) >= 1
  /\ stepsRet.steps[1] \in Members(PoolIn("core"))

\* The strings of the theme's pools that pass isSafe
SafeInPools ==
  {t \in Members(PoolIn("warmups")) \cup Members(PoolIn("core"))
          \cup Members(PoolIn("stretch")) : isSafe(t)}

\* C13: whenever the pools of the theme hold at least plan.count distinct
\* strings that pass isSafe, stepsForDay returns exactly plan.count entries,
\* whatever the generator stream.
C13_CountMetWhenPoolsSuffice ==
  (~ IsNull(stepsRet) /\ Cardinality(SafeInPools) >= planForDow(dowIn).count)
    => Len(stepsRet.steps) = planForDow(dowIn).count

(* ------------------------ mulberry32 called on its own ------------------ *)
\* The number of calls made to one generator
MaxCalls == 3

\* The seeds: the two ends of the 32-bit range and the streams of some weeks
GenSeeds == {<<0, 0>>, <<65535, 65535>>} \cup {rngForWeek(2025, 44 + w) : w \in 1..NumStreams}

\* mulberry32 keeping its state outside the closure, where the generator
\* created first leaves it
mulberry32_sharedState(seed) ==
  IF IsNull(gens["a"]) THEN [seed |-> seed] ELSE gens["a"]

\* mulberry32(seed) (lines 283-290): a closure over its own copy of seed
mulberry32(seed) == [seed |-> seed]

InitGens ==
  /\ IdleBuild
  /\ IdleDisk
  /\ IdleSteps
  /\ IdleAsk
  /\ IdleUi
  /\ IdleHash
  /\ IdleProcs
  /\ genSeed \in GenSeeds
  /\ gens = [g \in GenIds |-> Null]
  /\ outs = [g \in GenIds |-> <<>>]

\* const rng = mulberry32(seed), for generator g
CreateGenerator(g) ==
  /\ IsNull(gens[g])
  /\ gens' = [gens EXCEPT ![g] = mulberry32(genSeed)]
  /\ UNCHANGED <<genSeed, outs, exceptGens>>

\* The generator g after the draw r, and the value r it returned
Returned(g, r) ==
  /\ gens' = [gens EXCEPT ![g] = [seed |-> r.seed]]
  /\ outs' = [outs EXCEPT ![g] = Append(outs[g], r.val)]

\* rng(), for generator g
CallGenerator(g) ==
  /\ ~ IsNull(gens[g])
  /\ Len(outs[g]) < MaxCalls
  /\ Returned(g, Draw(gens[g].seed))
  /\ UNCHANGED <<genSeed, exceptGens>>

NextGens ==
  \/ \E g \in GenIds : CreateGenerator(g)
  \/ \E g \in GenIds : CallGenerator(g)

SpecGens == InitGens /\ [][NextGens]_vars

(* -------------------------- Claims about mulberry32 --------------------- *)
\* C14: two generators created from the same seed return the same value at
\* every call index both have reached, and every value returned is v / 2^32
\* for an integer 0 <= v < 2^32, that is 0 <= value < 1.
C14_SameSeedSameStream ==
  /\ \A i \in 1..MaxCalls :
        (i <= Len(outs["a"]) /\ i <= Len(outs["b"])) => outs["a"][i] = outs["b"][i]
  /\ \A g \in GenIds : \A i \in 1..Len(outs[g]) :
        /\ Hi(outs[g][i]) \in 0..(B16 - 1)
        /\ Lo(outs[g][i]) \in 0..(B16 - 1)

\* C14 witness: the second generator was created after the first had been
\* called, both have returned several distinct values from the week stream
\* of 2025-45.
C14_BothCalledTwice ==
  /\ genSeed = <<54090, 34690>>
  /\ Len(outs["a"]) >= 2 /\ Len(outs["b"]) >= 2
  /\ outs["a"][1] = <<46510, 31133>>
  /\ outs["a"][1] # outs["a"][2]

(* ------------------- buildQuestWithFallback, pass by pass --------------- *)
\* One date for each day of the week, Sunday 2025-10-26 to Saturday
QuestionDates ==
  { "2025-10-26", "2025-10-27", "2025-10-28", "2025-10-29",
    "2025-10-30", "2025-10-31", "2025-11-01" }

\* The core pool as shipped, and core pools that make a candidate fail:
\* empty, holding a banned word, and holding both a good and a banned text
CoreVariants ==
  { questionsCore, <<>>, <<"Can you visit the End?">>,
    <<"Can you dig a hole", "Can you raid the End">> }

ExtraVariants == { questionsExtra, <<>> }

\* The values of the maxTries parameter
TryLimits == {1, 2, maxTries}

\* The candidate of one pass: biome_hint and reward take the first two
\* random values, the steps the following ones (lines 172-188)
CandidateOfPass(pools, DATE, rs) ==
  QuestOf(DATE, rs, 1, stepsForDateOf(pools, DATE, rs, 3).steps)

\* A candidate and the answer of validateQuest(quest) at line 190
Checked(quest) == [quest |-> quest, ok |-> validateQuest_Q(quest)]

InitAsk ==
  /\ IdleBuild
  /\ IdleDisk
  /\ IdleSteps
  /\ IdleGens
  /\ IdleUi
  /\ IdleHash
  /\ IdleProcs
  /\ qIn \in [ pools : [core : CoreVariants, extra : ExtraVariants],
                date : QuestionDates, limit : TryLimits ]
  /\ passes = [rs \in RandomStreams |->
                 Checked(CandidateOfPass(qIn.pools, qIn.date, rs))]
  /\ tryNo = 1
  /\ qOut = Null

\* One pass of the loop of buildQuestWithFallback (lines 171-191), the
\* random values of the pass being rs:
\* if (validateQuest(quest)) return quest; else attempt++
Attempt(rs) ==
  /\ IsNull(qOut)
  /\ tryNo <= qIn.limit
  /\ IF passes[rs].ok
     THEN /\ qOut' = [quest |-> passes[rs].quest, from |-> "candidate", tries |-> tryNo]
          /\ UNCHANGED tryNo
     ELSE /\ tryNo' = tryNo + 1
          /\ UNCHANGED qOut
  /\ UNCHANGED <<qIn, passes, exceptAsk>>

\* return HARDCODED_FALLBACK (line 193)
ReturnFallback ==
  /\ IsNull(qOut)
  /\ tryNo > qIn.limit
  /\ qOut' = [quest |-> HARDCODED_FALLBACK(qIn.date), from |-> "fallback",
               tries |-> tryNo - 1]
  /\ UNCHANGED <<qIn, passes, tryNo, exceptAsk>>

NextAsk ==
  \/ \E rs \in RandomStreams : Attempt(rs)
  \/ ReturnFallback

SpecAsk == InitAsk /\ [][NextAsk]_vars

\* The loop is straight-line code of one thread: a pass that can run, runs
SpecAskFair == SpecAsk /\ WF_vars(NextAsk)

(* -------------------- Claims about buildQuestWithFallback --------------- *)
\* What may be returned: a candidate that passed within the limit, or the
\* fallback after `limit` failed passes; it passes validateQuest either way
ReturnedAsClaimed ==
  ~ IsNull(qOut) =>
    /\ validateQuest_Q(qOut.quest)
    /\ qOut.tries <= qIn.limit
    /\ \/ /\ qOut.from = "candidate"
          /\ qOut.tries = tryNo
          /\ \E rs \in RandomStreams :
                qOut.quest = CandidateOfPass(qIn.pools, qIn.date, rs)
       \/ /\ qOut.from = "fallback"
          /\ qOut.tries = qIn.limit
          /\ qOut.quest = HARDCODED_FALLBACK(qIn.date)

\* C15: buildQuestWithFallback makes at most maxTries passes and then
\* returns; it returns the candidate of the first pass that validates, or
\* HARDCODED_FALLBACK after maxTries failed passes, and what it returns
\* passes validateQuest.
C15_ReturnsValidWithinMaxTries ==
  /\ [](tryNo <= qIn.limit + 1)
  /\ []ReturnedAsClaimed
  /\ [][IsNull(qOut') => tryNo' = tryNo + 1]_vars
  /\ <>(~ IsNull(qOut))

\* C15 witness: with the default maxTries, ten passes failed and the fallback
\* was returned.
C15_FallbackAfterTenFailures ==
  /\ ~ IsNull(qOut)
  /\ qIn.limit = maxTries
  /\ qOut.from = "fallback"
  /\ qOut.tries = 10
  /\ tryNo = 11

\* The day of the week of each date of QuestionDates, from the calendar
WeekdayOf ==
  [ d \in QuestionDates |->
      CASE d = "2025-10-26" -> "Sunday"
        [] d = "2025-10-27" -> "Monday"
        [] d = "2025-10-28" -> "Tuesday"
        [] d = "2025-10-29" -> "Wednesday"
        [] d = "2025-10-30" -> "Thursday"
        [] d = "2025-10-31" -> "Friday"
        [] d = "2025-11-01" -> "Saturday" ]

\* Sunday 1 step, Monday to Thursday 2 steps, Friday and Saturday 3 steps
CountOfWeekday(day) ==
  IF day = "Sunday" THEN 1
  ELSE IF day \in {"Friday", "Saturday"} THEN 3
  ELSE 2

\* C16: with the pools as shipped, the record returned for a date (and
\* written at line 203) has 1 step on a Sunday, 2 from Monday to Thursday and
\* 3 on a Friday or Saturday; every step of a returned record is a string
\* ending with a question mark.
C16_StepCountByWeekday ==
  ~ IsNull(qOut) =>
    /\ qIn.pools = ShippedPools =>
          Len(qOut.quest.steps) = CountOfWeekday(WeekdayOf[qIn.date])
    /\ \A i \in 1..Len(qOut.quest.steps) :
          /\ IsString(qOut.quest.steps[i])
          /\ endsWith(qOut.quest.steps[i], "?")

\* C16 witness: with the shipped pools a Sunday got one step and (in another
\* run) a Saturday got three; here the run for Sunday 2025-10-26.
C16_SundayOneStep ==
  /\ ~ IsNull(qOut)
  /\ qIn.pools = ShippedPools
  /\ qIn.date = "2025-10-26"
  /\ qOut.from = "candidate"
  /\ Len(qOut.quest.steps) = 1

(* ------------------------ The display widget (quest-ui.js) -------------- *)
\* A body that is not JSON (an error page), and the records served
NotJSON == [html |-> TRUE]

ServedQuests ==
  { [id |-> "2025-11-01", steps |-> <<"Plant a tree.", "Dig a well.">>],
    [id |-> "2025-11-02", steps |-> <<"Can you dig a hole?">>],
    [id |-> "2025-11-02", steps |-> <<"Plant a tree.", "Dig a well.", "Build a dock.">>],
    [id |-> "2025-11-02"] }

\* What /quests/<today>.json may answer
Responses == [status : {200, 404, 500}, body : ServedQuests \cup {NotJSON}]

\* Response.ok with every status below 500 taken as a success
IsOk_below500(status) == status < 500

\* Response.ok: the status is in the range 200-299
IsOk(status) == status >= 200 /\ status <= 299

\* localStorage.setItem(k, v)
setItem(store, k, v) ==
  [x \in DOMAIN store \cup {k} |-> IF x = k THEN v ELSE store[x]]

\* localStorage.getItem(k): null when the key is not set
getItem(store, k) == IF k \in DOMAIN store THEN store[k] ELSE "null"

\* key(i) of line 12 and votedKey of line 97
StepKey(q, i) == "mcq:" \o q.id \o ":step:" \o ToString(i) \o ":done"

VotedKey(q) == "mcq:" \o q.id \o ":voted"

\* What localStorage holds when the page loads: nothing, or the marks left
\* by an earlier visit
StoredBefore ==
  { <<>>,
    setItem(<<>>, "mcq:2025-10-31:voted", "1"),
    setItem(setItem(<<>>, "mcq:2025-11-01:step:0:done", "1"),
            "mcq:2025-11-01:voted", "1") }

InitUi ==
  /\ IdleBuild
  /\ IdleDisk
  /\ IdleSteps
  /\ IdleGens
  /\ IdleAsk
  /\ IdleHash
  /\ IdleProcs
  /\ uiPc = "start"
  /\ res = Null
  /\ mount \in {"none", "placeholder"}
  /\ storage \in StoredBefore
  /\ vote \in [configured : BOOLEAN, clicks : {0}, accepted : {0},
                pending : {0}, posts : {0}]

\* The script from its start to its end (lines 3-124) when the fetch
\* resolves to r: a response that is not ok ends it; res.json() rejects on
\* a body that is not JSON; a missing mount ends it; q.steps.forEach throws
\* on a record without steps; otherwise the mount is replaced.  Until then
\* localStorage is only read.
LoadWidget(r) ==
  /\ uiPc = "start"
  /\ res' = r
  /\ uiPc' = IF ~ IsOk(r.status) THEN "returned"
             ELSE IF r.body = NotJSON THEN "threw"
             ELSE IF mount = "none" THEN "returned"
             ELSE IF "steps" \notin DOMAIN r.body THEN "threw"
             ELSE "mounted"
  /\ mount' = IF uiPc' = "mounted" THEN "widget" ELSE mount
  /\ UNCHANGED <<storage, vote, exceptUi>>

\* The change handler of the checkbox of step i (lines 55-58)
ToggleStep(i, checked) ==
  /\ uiPc = "mounted"
  /\ i < Len(res.body.steps)
  /\ storage' = setItem(storage, StepKey(res.body, i), IF checked THEN "1" ELSE "0")
  /\ UNCHANGED <<uiPc, res, mount, vote, exceptUi>>

\* The number of clicks on the vote buttons
MaxClicks == 3

\* The voted check never turning a call away
AlreadyVoted_never(store, q) == FALSE

\* localStorage.getItem(votedKey) === "1" (line 85)
AlreadyVoted(store, q) == getItem(store, VotedKey(q)) = "1"

\* What await crypto.subtle.digest(...) evaluates to: an ArrayBuffer
DigestValue == [kind |-> "ArrayBuffer"]

\* Whether a value has a then method to call (line 94)
HasThen(v) == v.kind = "Promise"

\* A click on a vote button (lines 74-80): submitVote runs up to its first
\* await.  A call that finds the voted key set alerts and returns (85);
\* otherwise the key is set (86) and, when Supabase is configured, the call
\* stops at the await of line 93; when it is not, the call ends at line 120.
ClickVote ==
  /\ uiPc = "mounted"
  /\ vote.clicks < MaxClicks
  /\ IF AlreadyVoted(storage, res.body)
     THEN /\ vote' = [vote EXCEPT !.clicks = @ + 1]
          /\ UNCHANGED storage
     ELSE /\ storage' = setItem(storage, VotedKey(res.body), "1")
          /\ vote' = [vote EXCEPT !.clicks = @ + 1, !.accepted = @ + 1,
                                  !.pending = IF vote.configured THEN @ + 1 ELSE @]
  /\ UNCHANGED <<uiPc, res, mount, exceptUi>>

\* A call of submitVote resumed after the await of line 93 (lines 93-120):
\* .then is called on the awaited value; when that throws, the catch of line
\* 118 ends the try block before the POST of line 96, otherwise the POST is
\* sent.  Nothing after it writes localStorage.
ResumeVote ==
  /\ vote.pending > 0
  /\ vote' = [vote EXCEPT !.pending = @ - 1,
                          !.posts = IF HasThen(DigestValue) THEN @ + 1 ELSE @]
  /\ UNCHANGED <<uiPc, res, mount, storage, exceptUi>>

NextUi ==
  \/ \E r \in Responses : LoadWidget(r)
  \/ \E i \in 0..2 : \E checked \in BOOLEAN : ToggleStep(i, checked)
  \/ ClickVote
  \/ ResumeVote

SpecUi == InitUi /\ [][NextUi]_vars

(* ---------------------------- Claims about the widget ------------------- *)
\* C17: when the fetch answers with a status that is not ok (404, 500), the
\* widget returns without throwing, the element at #daily-quest is not
\* replaced and localStorage is left as it was, then and afterwards.
C17_NotOkLeavesPageAlone ==
  [][ /\ (uiPc = "start" /\ ~ IsNull(res') /\ res'.status \in {404, 500})
        => (uiPc' = "returned" /\ mount' = mount /\ storage' = storage)
      /\ (~ IsNull(res) /\ res.status \in {404, 500})
        => (uiPc' = "returned" /\ mount' = mount /\ storage' = storage) ]_vars

\* C17 witness: the fetch answered 404; the script has returned, the
\* placeholder is still in the page and localStorage holds what it held.
C17_Answered404 ==
  /\ ~ IsNull(res)
  /\ res.status = 404
  /\ uiPc = "returned"
  /\ mount = "placeholder"
  /\ storage = setItem(<<>>, "mcq:2025-10-31:voted", "1")

(* -------------------------- Claims about getISOWeekInfo ----------------- *)
\* The day of the week of day number n, 0 = Monday .. 6 = Sunday, counted
\* from Monday 2001-01-01
WeekdayOfDay(n) == (n - DaysFromCivil(2001, 1, 1)) % 7

\* ISO 8601 for the week whose Thursday is day number thu: the ISO year is
\* the calendar year of that Thursday, and the week number counts the
\* Thursdays of that year up to it
IsoOfThursday(thu) ==
  [isoYear |-> CivilOfDays(thu).y,
   week    |-> (thu - DaysFromCivil(CivilOfDays(thu).y, 1, 1)) \div 7 + 1]

\* The seven days of the week of day n all get the (isoYear, week) of info,
\* and dow 0 for the Monday up to 6 for the Sunday
WholeWeekAgrees(n, info) ==
  \A k \in 0..6 :
    /\ getISOWeekInfo(DateString(n - WeekdayOfDay(n) + k)).isoYear = info.isoYear
    /\ getISOWeekInfo(DateString(n - WeekdayOfDay(n) + k)).week = info.week
    /\ getISOWeekInfo(DateString(n - WeekdayOfDay(n) + k)).dow = k

\* The week after follows by one, or is week 1 of the next ISO year
NextWeekFollows(info, after) ==
  \/ after.isoYear = info.isoYear /\ after.week = info.week + 1
  \/ after.isoYear = info.isoYear + 1 /\ after.week = 1 /\ info.week \in {52, 53}

IsoHolds(n, info) ==
  /\ info.dow = WeekdayOfDay(n)
  /\ info.week \in 1..53
  /\ info.isoYear = IsoOfThursday(n - WeekdayOfDay(n) + 3).isoYear
  /\ info.week = IsoOfThursday(n - WeekdayOfDay(n) + 3).week
  /\ info.week = 1 <=> CivilOfDays(n - WeekdayOfDay(n) + 3).m = 1
                        /\ CivilOfDays(n - WeekdayOfDay(n) + 3).d <= 7
  /\ WholeWeekAgrees(n, info)
  /\ NextWeekFollows(info, getISOWeekInfo(DateString(n + 7)))

\* C18: for the date planned, getISOWeekInfo gives dow 0 for a Monday up to
\* 6 for a Sunday; the seven dates Monday..Sunday of its week get the same
\* (isoYear, week); week is in 1..53; week 1 is the week that holds the first
\* Thursday of the year; the week after has the next number, or is week 1 of
\* the next ISO year.
C18_ISOWeekInfoIsISO8601 ==
  pc = "planned" =>
    /\ plan.dow = WeekdayOfDay(toUTCDate(date))
    /\ IsoHolds(toUTCDate(date), getISOWeekInfo(date))

\* C18 witness: Monday 2025-12-29 was planned; it is in week 1 of ISO
\* year 2026.
C18_MondayOfWeekOne2026 ==
  /\ pc = "planned"
  /\ date = "2025-12-29"
  /\ plan.dow = 0
  /\ getISOWeekInfo(date) = [isoYear |-> 2026, week |-> 1, dow |-> 0]

(* -------------------------- strHash called on its own ------------------- *)
\* The string rngForWeek hashes (line 300)
WeekKey(isoYear, week) == ToString(isoYear) \o "-" \o ToString(week) \o "-MCQUESTS"

\* The strings hashed: the key of every week of 2025 and 2026, and some
\* short strings
HashInputs ==
  {WeekKey(y, w) : y \in {2025, 2026}, w \in 1..53}
  \cup {"", "a", "ab", "ba", "abc", "cab"}

InitHash ==
  /\ IdleBuild
  /\ IdleDisk
  /\ IdleSteps
  /\ IdleGens
  /\ IdleAsk
  /\ IdleUi
  /\ IdleProcs
  /\ hIn \in HashInputs
  /\ hOut = Null

\* strHash(s) (lines 291-298)
CallStrHash ==
  /\ IsNull(hOut)
  /\ hOut' = [h |-> strHash(hIn)]
  /\ UNCHANGED <<hIn, exceptHash>>

NextHash == CallStrHash

SpecHash == InitHash /\ [][NextHash]_vars

(* ----------------------------- Claims about strHash --------------------- *)
\* The one-character strings of s, and how often c occurs in s
CharsOf(s) == {SubSeq(s, i, i) : i \in 1..Len(s)}

Occurrences(s, c) == Cardinality({i \in 1..Len(s) : SubSeq(s, i, i) = c})

\* s and t are made of the same characters, in any order
SameCharacters(s, t) ==
  /\ Len(s) = Len(t)
  /\ \A c \in CharsOf(s) \cup CharsOf(t) : Occurrences(s, c) = Occurrences(t, c)

\* The result is an unsigned 32-bit integer
InWord32(h) == Hi(h) \in 0..(B16 - 1) /\ Lo(h) \in 0..(B16 - 1)

\* C19 as stated: the result is in 0..2^32-1, and every string made of the
\* same characters in another order has the same hash.
C19_OrderIndependent ==
  ~ IsNull(hOut) =>
    /\ InWord32(hOut.h)
    /\ \A t \in HashInputs : SameCharacters(t, hIn) => strHash(t) = hOut.h

\* C19 amended: the result is in 0..2^32-1 and is the same whenever the
\* same string is hashed again; the order of the characters matters: a
\* string made of the same characters in another order has another hash
\* (as have all the other week keys).
C19_OrderDependent ==
  ~ IsNull(hOut) =>
    /\ InWord32(hOut.h)
    /\ hOut.h = strHash(hIn)
    /\ \A t \in HashInputs : t # hIn => strHash(t) # hOut.h

\* C19 witness: the key of week 12 of 2025 was hashed; the key of week 21 is
\* made of the same characters and has another hash.
C19_Week12AndWeek21 ==
  /\ ~ IsNull(hOut)
  /\ hIn = "2025-12-MCQUESTS"
  /\ SameCharacters("2025-21-MCQUESTS", hIn)
  /\ strHash("2025-21-MCQUESTS") # hOut.h
  /\ strHash("2025-45-MCQUESTS") = <<54090, 34690>>

(* ------------------- Two runs of main at the same time ------------------ *)
\* Two generator processes
Procs == {1, 2}

\* What quests/index.json holds before the two runs
RaceIndexes ==
  { Missing, JArray(<<>>), JArray(<<"2025-11-01">>),
    JArray(<<"2025-11-04", "2025-11-01">>) }

InitRace ==
  /\ IdleBuild
  /\ IdleSteps
  /\ IdleGens
  /\ IdleAsk
  /\ IdleUi
  /\ IdleHash
  /\ files = [d \in RunDates |-> NoFile]
  /\ index \in RaceIndexes
  /\ index0 = index
  /\ ran = {}
  /\ lastRun = NoRun
  /\ \E d1 \in RunDates : \E d2 \in RunDates \ {d1} :
        procs = [p \in Procs |->
                   [at |-> "start", DATE |-> IF p = 1 THEN d1 ELSE d2, read |-> Null]]

\* The index a process merges its DATE into at line 768, read again at
\* the moment of the merge
IndexMerged_reread(p) == readJSON(index, JArray(<<>>))

\* The index a process merges its DATE into at line 768: the value it read
\* at line 767
IndexMerged(p) == procs[p].read

\* Lines 764-765 in process p: the record is built and written
WriteRecord(p) ==
  /\ procs[p].at = "start"
  /\ files' = [files EXCEPT ![procs[p].DATE] = buildQuest(procs[p].DATE)]
  /\ procs' = [procs EXCEPT ![p].at = "wrote"]
  /\ UNCHANGED <<index, index0, ran, lastRun, buildVars>>
  /\ UNCHANGED <<stepVars, genVars, askVars, uiVars, hashVars>>

\* Line 767 in process p: the index is read
ReadIndex(p) ==
  /\ procs[p].at = "wrote"
  /\ procs' = [procs EXCEPT ![p].at = "read",
                             ![p].read = readJSON(index, JArray(<<>>))]
  /\ UNCHANGED <<fsVars, buildVars>>
  /\ UNCHANGED <<stepVars, genVars, askVars, uiVars, hashVars>>

\* Lines 768-770 in process p: DATE is merged into what was read and the
\* result is written over quests/index.json
WriteIndex(p) ==
  /\ procs[p].at = "read"
  /\ index' = JArray(MergeIndex(procs[p].DATE, SpreadOf(IndexMerged(p))))
  /\ ran' = ran \cup {procs[p].DATE}
  /\ procs' = [procs EXCEPT ![p].at = "done"]
  /\ UNCHANGED <<files, index0, lastRun, buildVars>>
  /\ UNCHANGED <<stepVars, genVars, askVars, uiVars, hashVars>>

NextRace ==
  \/ \E p \in Procs : WriteRecord(p)
  \/ \E p \in Procs : ReadIndex(p)
  \/ \E p \in Procs : WriteIndex(p)

SpecRace == InitRace /\ [][NextRace]_vars

(* ---------------------- Claims about the index update ------------------- *)
\* Both processes read the index before either wrote it: each read what the
\* file held before the runs
BothReadFirst ==
  \A p \in Procs : procs[p].read = readJSON(index0, JArray(<<>>))

BothDone == \A p \in Procs : procs[p].at = "done"

\* The dates of the two processes that the index lists
Listed == {p \in Procs : procs[p].DATE \in IndexSet(index)}

\* C20: when both processes have read index.json before either wrote it,
\* the index they leave lists the date of one of them only (the one that
\* wrote last), although the record files of both dates exist.
C20_LostIndexUpdate ==
  (BothDone /\ BothReadFirst) =>
    /\ Cardinality(Listed) = 1
    /\ \A p \in Procs : files[procs[p].DATE] # NoFile

\* C20 witness: both runs are over, both read the index as it was before,
\* the date of process 1 is missing from the index and its record exists.
C20_FirstDateLost ==
  /\ BothDone
  /\ BothReadFirst
  /\ Listed = {2}
  /\ files[procs[1].DATE] # NoFile
  /\ files[procs[2].DATE] # NoFile

(* ------------------------ Claims about the LLM generator ---------------- *)
\* validateQuest of the theme generator (lines 324-331) applied to a record
\* read back from disk: a field the record lacks reads as undefined
PassesValidator(q) == validateQuest(q @@ [theme |-> Undefined])

\* C21: a record the LLM generator writes to quests/<date>.json passes the
\* validator of the deterministic generator: id equal to date, safe title
\* and theme, 1 to 3 steps that all pass isSafe.
C21_LLMRecordValidated ==
  [][\A d \in RunDates :
       (lastRun'.script = "llm" /\ files'[d] # files[d]) => PassesValidator(files'[d])]_vars

(* -------------------------- Claims about the vote ----------------------- *)
\* The keys of localStorage that are set to "1"
KeysSet(store) == {k \in DOMAIN store : store[k] = "1"}

\* The voted flags of localStorage that are set
VotedFlags(store) ==
  {k \in KeysSet(store) : Len(k) > 6 /\ SubSeq(k, Len(k) - 5, Len(k)) = ":voted"}

\* C22: for one record and one localStorage, whatever the clicks and however
\* they fall between the awaits of earlier calls, at most one call of
\* submitVote gets past the voted check, at most one POST is sent to the
\* votes endpoint, and a voted flag that is set stays set.
C22_AtMostOneVote ==
  /\ [](~ IsNull(vote) =>
          /\ vote.accepted <= 1
          /\ vote.posts <= vote.accepted
          /\ (vote.accepted = 1 => getItem(storage, VotedKey(res.body)) = "1"))
  /\ [][VotedFlags(storage) \subseteq VotedFlags(storage')]_vars

\* C22 witness: with Supabase configured, the first call is still awaiting
\* and two more clicks have been turned away.
C22_SecondClickWhileAwaiting ==
  /\ ~ IsNull(vote)
  /\ vote.configured
  /\ vote.clicks = 3
  /\ vote.accepted = 1
  /\ vote.pending = 1

(* ------------------ The generator's runs with failing writes ------------ *)
\* What a writeFileSync that throws leaves of the file: the file as it was,
\* or a file cut short.
LeftByFailedWrite == {"untouched", "cut"}

\* What quests/index.json may hold before a run: nothing, text that does not
\* parse, a JSON object, or an array of dates as earlier runs leave it.
RunIndexes ==
  { Missing, Garbage, JObject, JArray(<<>>), JArray(<<"2025-10-28">>),
    JArray(<<"2025-11-03", "2025-10-28">>) }

\* The disk before a run: each record file absent or as an earlier run for
\* its date wrote it, and any of the index contents.
InitRuns ==
  /\ pc = "fs"
  /\ date = ""
  /\ result = Null
  /\ other = ""
  /\ chosen = <<>>
  /\ plan = Null
  /\ \E S \in SUBSET WriterDates :
       files = [d \in RunDates |-> IF d \in S THEN buildQuest(d) ELSE NoFile]
  /\ index \in RunIndexes
  /\ index0 = index
  /\ ran = {}
  /\ lastRun = NoRun
  /\ IdleUnits

\* main (lines 754-773) when the writeFileSync of line 765 throws: the
\* exception leaves main before line 767, so the index is neither read nor
\* written.
MainRecordWriteFails(DATE, left) ==
  /\ pc = "fs"
  /\ files' = IF left = "cut" THEN [files EXCEPT ![DATE] = Garbage] ELSE files
  /\ lastRun' = [script |-> "main", date |-> DATE, exit |-> 1, read |-> Missing,
                  failed |-> "record"]
  /\ UNCHANGED <<index, index0, ran, buildVars>>
  /\ UNCHANGED unitVars

\* main (lines 754-773) when the writeFileSync of line 770 throws: the
\* record is on disk and the index was read and merged.
MainIndexWriteFails(DATE) ==
  /\ pc = "fs"
  /\ Iterable(readJSON(index, JArray(<<>>)))
  /\ files' = [files EXCEPT ![DATE] = buildQuest(DATE)]
  /\ \E left \in LeftByFailedWrite : index' = IF left = "cut" THEN Garbage ELSE index
  /\ lastRun' = [script |-> "main", date |-> DATE, exit |-> 1, read |-> index,
                  failed |-> "index"]
  /\ UNCHANGED <<index0, ran, buildVars>>
  /\ UNCHANGED unitVars

NextRuns ==
  \/ \E DATE \in WriterDates : Main(DATE)
  \/ \E DATE \in WriterDates : Main_1(DATE)
  \/ \E DATE \in WriterDates : \E left \in LeftByFailedWrite : MainRecordWriteFails(DATE, left)
  \/ \E DATE \in WriterDates : MainIndexWriteFails(DATE)

SpecRuns == InitRuns /\ [][NextRuns]_vars

(* ------------------- Claims about the record and the index -------------- *)
\* The entries the index lists, as main's spread of line 768 reads them
Indexed(content) ==
  IF Iterable(readJSON(content, JArray(<<>>)))
  THEN {SpreadOf(readJSON(content, JArray(<<>>)))[i] :
          i \in 1..Len(SpreadOf(readJSON(content, JArray(<<>>))))}
  ELSE {}

\* The dates that have a record file
Recorded(disk) == {d \in DOMAIN disk : disk[d] # NoFile}

\* C23: a run writes the record before it reads and rewrites the index, and
\* a record write that throws leaves the index as it was: a run from a disk
\* on which every indexed date has a record file ends on such a disk, a run
\* that got as far as the index has written its record, and a run whose
\* record write failed has index.json unchanged.
C23_RecordBeforeIndex ==
  [][/\ Indexed(index) \subseteq Recorded(files)
          => Indexed(index') \subseteq Recorded(files')
     /\ lastRun'.script = "main" /\ index' # index
          => lastRun'.date \in Recorded(files')
     /\ ("failed" \in DOMAIN lastRun' /\ lastRun'.failed = "record")
          => index' = index]_vars

\* C23 witness: the record write of a date that has no file failed, on a
\* disk whose index lists an earlier run's date and every indexed date has
\* its record.
C23_FailedRecordWriteKeptIndex ==
  /\ "failed" \in DOMAIN lastRun
  /\ lastRun.failed = "record"
  /\ lastRun.date \notin Recorded(files)
  /\ ran # {}
  /\ Indexed(index) = ran
  /\ Indexed(index) \subseteq Recorded(files)

(* ------------------- Claims about two days of one week ------------------ *)
\* A record with its id and date blanked
WithoutIdAndDate(quest) == [quest EXCEPT !.id = "", !.date = ""]

\* C24: each build restarts the stream from the week seed, so the records
\* of the Wednesday and the Thursday of one ISO week, whose plans are both
\* <<core, core>>, are equal in steps, biome_hint, reward and theme and in
\* every other field except id and date whenever the two days resolve to
\* the same theme.
C24_WedThuSameRecord ==
  (/\ pc = "pair"
   /\ getISOWeekInfo(date).dow = 2
   /\ chosen[1].theme = chosen[2].theme) =>
    /\ getISOWeekInfo(other).dow = 3
    /\ getISOWeekInfo(other).week = getISOWeekInfo(date).week
    /\ planForDow(2) = planForDow(3)
    /\ chosen[1].steps = chosen[2].steps
    /\ chosen[1].biome_hint = chosen[2].biome_hint
    /\ chosen[1].reward = chosen[2].reward
    /\ WithoutIdAndDate(chosen[1]) = WithoutIdAndDate(chosen[2])
    /\ chosen[1].id = date /\ chosen[1].date = date
    /\ chosen[2].id = other /\ chosen[2].date = other
    /\ date # other

\* C24 witness: a Wednesday and its Thursday in a rotation week, both built
\* from the theme with two different core steps.
C24_WedThuOfRotationWeek ==
  /\ pc = "pair"
  /\ getISOWeekInfo(date).dow = 2
  /\ chosen[1].theme = chosen[2].theme
  /\ chosen[1].theme # hardFallback(date).theme
  /\ FindHoliday(date, HOLIDAY_THEMES) = 0
  /\ Len(chosen[1].steps) = 2

====
